---- MODULE Spec2Model ----
(***************************************************************************)
(* Credential and session-token subsystem of the six-cities REST API:      *)
(* the password hasher (utils/password.ts), the token codec                *)
(* (utils/token.ts, HMAC profile), the two authentication gates            *)
(* (middlewares/auth-middleware.ts) and the controllers that build them.   *)
(*                                                                         *)
(* Strings are sequences of character codes (ASCII), so that splitting,    *)
(* base64url, hex and JSON framing are computed as the code computes them. *)
(* The two cryptographic primitives (HMAC-SHA256, scrypt) are idealised as *)
(* collision-free functions: their digest is an injective byte encoding of *)
(* their arguments.                                                        *)
(***************************************************************************)
EXTENDS Integers, Sequences, FiniteSets, TLC

VARIABLES
    nowMs,      \* Date.now(): the wall clock, in milliseconds
    ticks,      \* number of clock steps taken so far (bounds the run)
    issued,     \* codec: the arguments and result of the last signToken call
    presented,  \* codec: the token string handed to verifyToken
    tampered,   \* codec: which segment of `presented` was altered, if any
    verdict,    \* codec: the last verifyToken call, its arguments and result
    crafted,    \* codec: a payload signed by hand by a holder of the secret
    pwStored,   \* hasher: the arguments and result of the last hashPassword call
    pwCheck,    \* hasher: the last verifyPassword call, its arguments and result
    extracted,  \* gate: the last getBearerToken call, its header and result
    env,        \* startup: process.env, the five variables the server requires
    boot,       \* startup: the outcome of constructing ConfigService
    config,     \* server: the ConfigService values SALT and JWT_SECRET
    users,      \* server: the user collection, in order of creation
    client,     \* the token the client holds, and how it was obtained
    reqs,       \* server: the requests in flight, one record per connection
    build,      \* store: which OfferController and FavoriteRepository are built
    offers,     \* store: the offer collection, one record per offer id
    favorites,  \* store: the favorite collection, rows per (user, offer)
    ops         \* store: the offer and favorite requests in flight

clockVars == <<nowMs, ticks>>
codecVars == <<issued, presented, tampered, verdict, crafted>>
hasherVars == <<pwStored, pwCheck>>
headerVars == <<extracted>>
startupVars == <<env, boot>>
serverVars == <<config, users, client, reqs>>
storeVars == <<build, offers, favorites, ops>>
vars == <<nowMs, ticks, issued, presented, tampered, verdict, crafted, pwStored,
          pwCheck,
          extracted, env, boot, config, users, client, reqs,
          build, offers, favorites, ops>>

(***************************************************************************)
(* Bounds of the model.                                                    *)
(***************************************************************************)
MaxTicks == 2
NumUsers == 2
NumSecrets == 2
NumPasswords == 4
MaxOffers == 1

(***************************************************************************)
(* Strings.                                                                *)
(***************************************************************************)
Drop(s, n) == SubSeq(s, n + 1, Len(s))

HasPrefix(s, p) == Len(s) >= Len(p) /\ SubSeq(s, 1, Len(p)) = p

\* the least element of a non-empty set of integers
Least(S) == CHOOSE i \in S : \A j \in S : i <= j

\* index of the first occurrence of character c in s, 0 when there is none
IndexOf(s, c) ==
    LET hits == {i \in 1..Len(s) : s[i] = c}
    IN  IF hits = {} THEN 0 ELSE Least(hits)

\* the characters String.prototype.trim removes (those below 256)
IsWhiteSpace(c) == c \in {9, 10, 11, 12, 13, 32, 160}

\* String.prototype.trim
Trim(s) ==
    LET keep == {i \in 1..Len(s) : ~IsWhiteSpace(s[i])}
    IN  IF keep = {} THEN <<>>
        ELSE SubSeq(s, Least(keep), CHOOSE i \in keep : \A j \in keep : j <= i)

\* String.prototype.split(sep) for a one-character separator
RECURSIVE Split(_, _)
Split(s, sep) ==
    LET i == IndexOf(s, sep)
    IN  IF i = 0 THEN <<s>>
        ELSE <<SubSeq(s, 1, i - 1)>> \o Split(Drop(s, i), sep)

\* Buffer.from(s, 'utf8'): code units below 128 are one byte, the others
\* (below 2048) two bytes
Utf8(s) ==
    IF \A i \in 1..Len(s) : s[i] < 128 THEN s
    ELSE
    LET end == [i \in 0..Len(s) |-> i + Cardinality({j \in 1..i : s[j] >= 128})]
    IN  [p \in 1..end[Len(s)] |->
            LET i == CHOOSE i \in 1..Len(s) : end[i - 1] < p /\ p <= end[i]
            IN  IF s[i] < 128 THEN s[i]
                ELSE IF p = end[i - 1] + 1 THEN 192 + (s[i] \div 64)
                ELSE 128 + (s[i] % 64)]

\* buf.toString('utf8') for a buffer of ASCII bytes; any other byte decodes
\* to U+FFFD (65533)
Utf8ToString(b) == [i \in 1..Len(b) |-> IF b[i] < 128 THEN b[i] ELSE 65533]

(***************************************************************************)
(* base64url, as Buffer encodes and decodes it.                            *)
(***************************************************************************)
B64Char(v) ==
    IF v < 26 THEN 65 + v
    ELSE IF v < 52 THEN 97 + (v - 26)
    ELSE IF v < 62 THEN 48 + (v - 52)
    ELSE IF v = 62 THEN 45
    ELSE 95

\* the sextet of a character; -1 for a character outside both base64 alphabets
B64Val(c) ==
    IF c >= 65 /\ c <= 90 THEN c - 65
    ELSE IF c >= 97 /\ c <= 122 THEN c - 71
    ELSE IF c >= 48 /\ c <= 57 THEN c + 4
    ELSE IF c = 45 \/ c = 43 THEN 62
    ELSE IF c = 95 \/ c = 47 THEN 63
    ELSE -1

\* buf.toString('base64url'): three bytes to four characters, no padding
RECURSIVE B64Encode(_)
B64Encode(b) ==
    IF Len(b) = 0 THEN <<>>
    ELSE IF Len(b) = 1 THEN
        <<B64Char(b[1] \div 4), B64Char((b[1] % 4) * 16)>>
    ELSE IF Len(b) = 2 THEN
        <<B64Char(b[1] \div 4),
          B64Char((b[1] % 4) * 16 + (b[2] \div 16)),
          B64Char((b[2] % 16) * 4)>>
    ELSE
        <<B64Char(b[1] \div 4),
          B64Char((b[1] % 4) * 16 + (b[2] \div 16)),
          B64Char((b[2] % 16) * 4 + (b[3] \div 64)),
          B64Char(b[3] % 64)>> \o B64Encode(Drop(b, 3))

RECURSIVE B64Bytes(_)
B64Bytes(v) ==
    IF Len(v) < 2 THEN <<>>
    ELSE IF Len(v) = 2 THEN <<v[1] * 4 + (v[2] \div 16)>>
    ELSE IF Len(v) = 3 THEN
        <<v[1] * 4 + (v[2] \div 16), (v[2] % 16) * 16 + (v[3] \div 4)>>
    ELSE
        <<v[1] * 4 + (v[2] \div 16),
          (v[2] % 16) * 16 + (v[3] \div 4),
          (v[3] % 4) * 64 + v[4]>> \o B64Bytes(Drop(v, 4))

\* Buffer.from(s, 'base64url'): characters outside the alphabet are skipped,
\* the unused low bits of a final partial group are ignored
B64Decode(s) ==
    LET valid == SelectSeq(s, LAMBDA c : B64Val(c) >= 0)
    IN  B64Bytes([i \in 1..Len(valid) |-> B64Val(valid[i])])

(***************************************************************************)
(* JSON of the token payload.                                              *)
(***************************************************************************)
RECURSIVE Digits(_)
Digits(n) == IF n < 10 THEN <<48 + n>> ELSE Digits(n \div 10) \o <<48 + (n % 10)>>

NumToStr(n) == IF n < 0 THEN <<45>> \o Digits(0 - n) ELSE Digits(n)

IsDigits(s) ==
    /\ Len(s) > 0
    /\ \A i \in 1..Len(s) : s[i] >= 48 /\ s[i] <= 57
    /\ (Len(s) > 1 => s[1] # 48)

RECURSIVE DigitsValue(_)
DigitsValue(s) ==
    IF Len(s) = 0 THEN 0
    ELSE DigitsValue(SubSeq(s, 1, Len(s) - 1)) * 10 + (s[Len(s)] - 48)

KeyUserId == <<123, 34, 117, 115, 101, 114, 73, 100, 34, 58, 34>>  \* {"userId":"
KeyEmail == <<34, 44, 34, 101, 109, 97, 105, 108, 34, 58, 34>>     \* ","email":"
KeyExp == <<34, 44, 34, 101, 120, 112, 34, 58>>                    \* ","exp":
CloseBrace == <<125>>                                              \* }

\* JSON.stringify({ userId, email, exp }) for strings that need no escaping
JsonStringify(userId, email, exp) ==
    KeyUserId \o userId \o KeyEmail \o email \o KeyExp \o NumToStr(exp) \o CloseBrace

\* a JSON string body: printable, without quote or backslash
PlainChars(s) ==
    \A i \in 1..Len(s) : s[i] >= 32 /\ s[i] # 34 /\ s[i] # 92

\* JavaScript values of the members of a payload: undefined (the member is
\* absent), null, a boolean, a number, a string. A number is kept as its
\* floor n and the flag frac of a fractional part that is not zero.
Undefined == [t |-> "undefined", s |-> <<>>, n |-> 0, frac |-> FALSE]
JsNull == [t |-> "null", s |-> <<>>, n |-> 0, frac |-> FALSE]
JsBool(b) == [t |-> "boolean", s |-> <<>>, n |-> IF b THEN 1 ELSE 0, frac |-> FALSE]
JsNum(n, frac) == [t |-> "number", s |-> <<>>, n |-> n, frac |-> frac]
JsStr(s) == [t |-> "string", s |-> s, n |-> 0, frac |-> FALSE]

\* the operand of `!`: undefined, null, false, 0 and '' are falsy
Falsy(v) ==
    \/ v.t \in {"undefined", "null"}
    \/ v.t = "boolean" /\ v.n = 0
    \/ v.t = "number" /\ v.n = 0 /\ ~v.frac
    \/ v.t = "string" /\ v.s = <<>>

\* a JSON number without exponent: -?digits(.digits)?
ParseNumber(tok) ==
    LET neg == Len(tok) > 0 /\ tok[1] = 45
        body == IF neg THEN Tail(tok) ELSE tok
        dot == IndexOf(body, 46)
        whole == IF dot = 0 THEN body ELSE SubSeq(body, 1, dot - 1)
        fraction == IF dot = 0 THEN <<>> ELSE Drop(body, dot)
        fracNonZero == \E i \in 1..Len(fraction) : fraction[i] # 48
    IN  IF \/ ~IsDigits(whole)
           \/ dot # 0 /\ Len(fraction) = 0
           \/ \E i \in 1..Len(fraction) : fraction[i] < 48 \/ fraction[i] > 57
        THEN [ok |-> FALSE, value |-> Undefined]
        ELSE [ok |-> TRUE,
              value |-> JsNum(IF ~neg THEN DigitsValue(whole)
                              ELSE IF fracNonZero THEN 0 - DigitsValue(whole) - 1
                              ELSE 0 - DigitsValue(whole),
                              fracNonZero)]

\* ToNumber of the operand of a comparison with a number: numbers as they
\* are, booleans 0 or 1, null 0, a string by its trimmed decimal text ('' is
\* 0); NaN for undefined and for any other string of the model
ToNumber(v) ==
    IF v.t = "number" THEN [nan |-> FALSE, n |-> v.n, frac |-> v.frac]
    ELSE IF v.t \in {"boolean", "null"} THEN [nan |-> FALSE, n |-> v.n, frac |-> FALSE]
    ELSE IF v.t = "string" THEN
        LET text == Trim(v.s)
            num == ParseNumber(text)
        IN  IF text = <<>> THEN [nan |-> FALSE, n |-> 0, frac |-> FALSE]
            ELSE IF num.ok
            THEN [nan |-> FALSE, n |-> num.value.n, frac |-> num.value.frac]
            ELSE [nan |-> TRUE, n |-> 0, frac |-> FALSE]
    ELSE [nan |-> TRUE, n |-> 0, frac |-> FALSE]

\* v < k and v <= k for an integer k; false when v is NaN
JsLess(v, k) == ~ToNumber(v).nan /\ ToNumber(v).n < k
JsLessEq(v, k) ==
    /\ ~ToNumber(v).nan
    /\ (ToNumber(v).n < k \/ (ToNumber(v).n = k /\ ~ToNumber(v).frac))

\* the member names the two token profiles read or write
JsonKeys == {"userId", "email", "exp", "sub", "iat", "alg"}

KeyText(key) ==
    CASE key = "userId" -> <<117, 115, 101, 114, 73, 100>>
      [] key = "email" -> <<101, 109, 97, 105, 108>>
      [] key = "exp" -> <<101, 120, 112>>
      [] key = "sub" -> <<115, 117, 98>>
      [] key = "iat" -> <<105, 97, 116>>
      [] OTHER -> <<97, 108, 103>>

NoFields == [key \in JsonKeys |-> Undefined]

\* JSON.parse threw: the catch branch of verifyToken
JsonError == [ok |-> FALSE, kind |-> "error", fields |-> NoFields]

\* one JSON value at the head of text, and the text after it
ParseValue(text) ==
    LET fail == [ok |-> FALSE, value |-> Undefined, rest |-> <<>>]
    IN  IF Len(text) = 0 THEN fail
        ELSE IF text[1] = 34 THEN
            LET q == IndexOf(Tail(text), 34)
            IN  IF q = 0 \/ ~PlainChars(SubSeq(text, 2, q)) THEN fail
                ELSE [ok |-> TRUE, value |-> JsStr(SubSeq(text, 2, q)),
                      rest |-> Drop(text, q + 1)]
        ELSE
            LET ends == {i \in 1..Len(text) : text[i] \in {44, 125}}
                end == IF ends = {} THEN 0 ELSE Least(ends)
                tok == SubSeq(text, 1, end - 1)
                rest == Drop(text, end - 1)
            IN  IF end = 0 THEN fail
                ELSE IF tok = <<116, 114, 117, 101>>
                     THEN [ok |-> TRUE, value |-> JsBool(TRUE), rest |-> rest]
                ELSE IF tok = <<102, 97, 108, 115, 101>>
                     THEN [ok |-> TRUE, value |-> JsBool(FALSE), rest |-> rest]
                ELSE IF tok = <<110, 117, 108, 108>>
                     THEN [ok |-> TRUE, value |-> JsNull, rest |-> rest]
                ELSE IF ParseNumber(tok).ok
                     THEN [ok |-> TRUE, value |-> ParseNumber(tok).value, rest |-> rest]
                ELSE fail

\* the members of an object, text standing after '{' or ','; a repeated name
\* keeps its last value, names outside JsonKeys are parsed and dropped
RECURSIVE ParseMembers(_, _)
ParseMembers(text, fields) ==
    LET q == IF Len(text) > 0 /\ text[1] = 34 THEN IndexOf(Tail(text), 34) ELSE 0
        name == SubSeq(text, 2, q)
        after == Drop(text, q + 1)
        v == ParseValue(Tail(after))
        known == {key \in JsonKeys : KeyText(key) = name}
        next == [key \in JsonKeys |-> IF key \in known THEN v.value ELSE fields[key]]
    IN  IF q = 0 \/ ~PlainChars(name) THEN JsonError
        ELSE IF Len(after) = 0 \/ after[1] # 58 THEN JsonError
        ELSE IF ~v.ok \/ Len(v.rest) = 0 THEN JsonError
        ELSE IF v.rest = <<125>> THEN [ok |-> TRUE, kind |-> "object", fields |-> next]
        ELSE IF v.rest[1] = 44 THEN ParseMembers(Tail(v.rest), next)
        ELSE JsonError

\* JSON.parse of a payload text written without white space, escapes,
\* exponents or nested values. kind tells what the text is JSON for: an
\* object (with its members), null, or another scalar (a string, a number,
\* a boolean: reading a member of it gives undefined); kind "error" is a
\* SyntaxError.
JsonParse(text) ==
    IF text = <<123, 125>> THEN [ok |-> TRUE, kind |-> "object", fields |-> NoFields]
    ELSE IF Len(text) > 0 /\ text[1] = 123 THEN ParseMembers(Tail(text), NoFields)
    ELSE
    LET v == ParseValue(text \o <<44>>)
    IN  IF ~v.ok \/ v.rest # <<44>> THEN JsonError
        ELSE [ok |-> TRUE,
              kind |-> IF v.value.t = "null" THEN "null" ELSE "scalar",
              fields |-> NoFields]

(***************************************************************************)
(* Token codec (HMAC profile).                                             *)
(***************************************************************************)
\* createHmac('sha256', secret).update(message).digest(): idealised as a
\* collision-free keyed function, the digest bytes being an injective
\* encoding of (secret, message); no secret of the model holds a NUL
HmacDigest(secret, message) == Utf8(secret) \o <<0>> \o Utf8(message)

\* Math.floor(Date.now() / 1000)
UnixTime(ms) == ms \div 1000

\* the default value of ttlSeconds
DefaultTtl == 60 * 60 * 24

\* signToken with the signature computed over the JSON text instead of over
\* its base64url form
signToken_hmacOverJson(userId, email, secret, ttlSeconds, ms) ==
    LET exp == UnixTime(ms) + ttlSeconds
        payload == JsonStringify(userId, email, exp)
        payloadB64 == B64Encode(Utf8(payload))
        sig == B64Encode(HmacDigest(secret, payload))
    IN  payloadB64 \o <<46>> \o sig

signToken(userId, email, secret, ttlSeconds, ms) ==
    LET exp == UnixTime(ms) + ttlSeconds
        payload == JsonStringify(userId, email, exp)
        payloadB64 == B64Encode(Utf8(payload))
        sig == B64Encode(HmacDigest(secret, payloadB64))
    IN  payloadB64 \o <<46>> \o sig

\* the negative result of verifyToken
Null == [ok |-> FALSE, userId |-> Undefined, email |-> Undefined]

\* the signatures compared after base64url decoding
SignatureMatches_decoded(sigB64, expectedSigB64) ==
    B64Decode(sigB64) = B64Decode(expectedSigB64)

\* the signatures compared by length alone
SignatureMatches_lengthOnly(sigB64, expectedSigB64) ==
    Len(Utf8(sigB64)) = Len(Utf8(expectedSigB64))

\* the length check and timingSafeEqual over the UTF-8 bytes of the two
\* base64url signature texts
SignatureMatches(sigB64, expectedSigB64) ==
    LET a == Utf8(sigB64)
        b == Utf8(expectedSigB64)
    IN  IF Len(a) # Len(b) THEN FALSE ELSE a = b

\* !payload.userId || !payload.email || !payload.exp
PayloadIncomplete(payload) ==
    \/ Falsy(payload.fields["userId"])
    \/ Falsy(payload.fields["email"])
    \/ Falsy(payload.fields["exp"])

\* the expiry comparison turned around
Expired_inverted(exp, ms) == ~JsLessEq(exp, UnixTime(ms))

\* payload.exp < Math.floor(Date.now() / 1000)
Expired(exp, ms) == JsLess(exp, UnixTime(ms))

\* verifyToken with the payload decoded and parsed before the signature is
\* looked at
VerifyRun_parseFirst(token, secret, ms) ==
    LET parts == Split(token, 46)
    IN  IF Len(parts) # 2 THEN [res |-> Null, raised |-> FALSE, steps |-> <<"split">>]
        ELSE
        LET payloadB64 == parts[1]
            sigB64 == parts[2]
            expectedSigB64 == B64Encode(HmacDigest(secret, payloadB64))
            payload == JsonParse(Utf8ToString(B64Decode(payloadB64)))
            early == <<"split", "decode", "parse", "hmac", "compare">>
        IN  IF ~payload.ok
            THEN [res |-> Null, raised |-> FALSE,
                  steps |-> <<"split", "decode", "parse", "catch">>]
            ELSE IF ~SignatureMatches(sigB64, expectedSigB64)
            THEN [res |-> Null, raised |-> FALSE, steps |-> early]
            ELSE IF payload.kind = "null"
            THEN [res |-> Null, raised |-> FALSE,
                  steps |-> early \o <<"match", "fields", "catch">>]
            ELSE IF PayloadIncomplete(payload)
            THEN [res |-> Null, raised |-> FALSE,
                  steps |-> early \o <<"match", "fields">>]
            ELSE IF Expired(payload.fields["exp"], ms)
            THEN [res |-> Null, raised |-> FALSE,
                  steps |-> early \o <<"match", "fields", "expiry">>]
            ELSE [res |-> [ok |-> TRUE, userId |-> payload.fields["userId"],
                           email |-> payload.fields["email"]],
                  raised |-> FALSE,
                  steps |-> early \o <<"match", "fields", "expiry">>]

\* verifyToken without the test of parts.length: the destructuring takes
\* the first two parts of the split, whatever follows them
VerifyRun_firstTwoParts(token, secret, ms) ==
    LET parts == Split(token, 46)
    IN  IF Len(parts) < 2 THEN [res |-> Null, raised |-> FALSE, steps |-> <<"split">>]
        ELSE
        LET payloadB64 == parts[1]
            sigB64 == parts[2]
            expectedSigB64 == B64Encode(HmacDigest(secret, payloadB64))
            checked == <<"split", "hmac", "compare">>
        IN  IF ~SignatureMatches(sigB64, expectedSigB64)
            THEN [res |-> Null, raised |-> FALSE, steps |-> checked]
            ELSE
            LET payload == JsonParse(Utf8ToString(B64Decode(payloadB64)))
                parsed == checked \o <<"match", "decode", "parse">>
            IN  IF ~payload.ok
                THEN [res |-> Null, raised |-> FALSE, steps |-> parsed \o <<"catch">>]
                ELSE IF payload.kind = "null"
                THEN [res |-> Null, raised |-> FALSE,
                      steps |-> parsed \o <<"fields", "catch">>]
                ELSE IF PayloadIncomplete(payload)
                THEN [res |-> Null, raised |-> FALSE, steps |-> parsed \o <<"fields">>]
                ELSE IF Expired(payload.fields["exp"], ms)
                THEN [res |-> Null, raised |-> FALSE,
                      steps |-> parsed \o <<"fields", "expiry">>]
                ELSE [res |-> [ok |-> TRUE, userId |-> payload.fields["userId"],
                               email |-> payload.fields["email"]],
                      raised |-> FALSE,
                      steps |-> parsed \o <<"fields", "expiry">>]

\* verifyToken without its try and catch: a SyntaxError of JSON.parse and
\* the TypeError of reading a member of null leave the function
VerifyRun_noCatch(token, secret, ms) ==
    LET parts == Split(token, 46)
    IN  IF Len(parts) # 2 THEN [res |-> Null, raised |-> FALSE, steps |-> <<"split">>]
        ELSE
        LET payloadB64 == parts[1]
            sigB64 == parts[2]
            expectedSigB64 == B64Encode(HmacDigest(secret, payloadB64))
            checked == <<"split", "hmac", "compare">>
        IN  IF ~SignatureMatches(sigB64, expectedSigB64)
            THEN [res |-> Null, raised |-> FALSE, steps |-> checked]
            ELSE
            LET payload == JsonParse(Utf8ToString(B64Decode(payloadB64)))
                parsed == checked \o <<"match", "decode", "parse">>
            IN  IF ~payload.ok
                THEN [res |-> Null, raised |-> TRUE, steps |-> parsed]
                ELSE IF payload.kind = "null"
                THEN [res |-> Null, raised |-> TRUE, steps |-> parsed \o <<"fields">>]
                ELSE IF PayloadIncomplete(payload)
                THEN [res |-> Null, raised |-> FALSE, steps |-> parsed \o <<"fields">>]
                ELSE IF Expired(payload.fields["exp"], ms)
                THEN [res |-> Null, raised |-> FALSE,
                      steps |-> parsed \o <<"fields", "expiry">>]
                ELSE [res |-> [ok |-> TRUE, userId |-> payload.fields["userId"],
                               email |-> payload.fields["email"]],
                      raised |-> FALSE,
                      steps |-> parsed \o <<"fields", "expiry">>]

\* one execution of verifyToken: its result and, in order, the operations it
\* performed: split (token.split), hmac (the HMAC recomputed over the payload
\* segment), compare (length test and timingSafeEqual), match (both passed),
\* decode (base64url of the payload segment), parse (JSON.parse), fields
\* (the falsy test; reading a member of null is a TypeError), expiry (the
\* comparison with the clock), catch (an exception inside the try block ends
\* in the catch branch). raised tells whether an exception left the function.
VerifyRun(token, secret, ms) ==
    LET parts == Split(token, 46)
    IN  IF Len(parts) # 2 THEN [res |-> Null, raised |-> FALSE, steps |-> <<"split">>]
        ELSE
        LET payloadB64 == parts[1]
            sigB64 == parts[2]
            expectedSigB64 == B64Encode(HmacDigest(secret, payloadB64))
            checked == <<"split", "hmac", "compare">>
        IN  IF ~SignatureMatches(sigB64, expectedSigB64)
            THEN [res |-> Null, raised |-> FALSE, steps |-> checked]
            ELSE
            LET payload == JsonParse(Utf8ToString(B64Decode(payloadB64)))
                parsed == checked \o <<"match", "decode", "parse">>
            IN  IF ~payload.ok
                THEN [res |-> Null, raised |-> FALSE, steps |-> parsed \o <<"catch">>]
                ELSE IF payload.kind = "null"
                THEN [res |-> Null, raised |-> FALSE,
                      steps |-> parsed \o <<"fields", "catch">>]
                ELSE IF PayloadIncomplete(payload)
                THEN [res |-> Null, raised |-> FALSE, steps |-> parsed \o <<"fields">>]
                ELSE IF Expired(payload.fields["exp"], ms)
                THEN [res |-> Null, raised |-> FALSE,
                      steps |-> parsed \o <<"fields", "expiry">>]
                ELSE [res |-> [ok |-> TRUE, userId |-> payload.fields["userId"],
                               email |-> payload.fields["email"]],
                      raised |-> FALSE,
                      steps |-> parsed \o <<"fields", "expiry">>]

\* the value verifyToken returns
verifyToken(token, secret, ms) == VerifyRun(token, secret, ms).res

(***************************************************************************)
(* Token codec (jose profile): SignJWT and jwtVerify with HS256.           *)
(***************************************************************************)
\* the protected header {"alg":"HS256"}
JoseHeader == <<123, 34, 97, 108, 103, 34, 58, 34, 72, 83, 50, 53, 54, 34, 125>>

\* the claims set of SignJWT({ email }) after setSubject, setIssuedAt and
\* setExpirationTime: {"email":"..","sub":"..","iat":N,"exp":N}
JoseClaims(email, sub, iat, exp) ==
    <<123, 34, 101, 109, 97, 105, 108, 34, 58, 34>> \o email
        \o <<34, 44, 34, 115, 117, 98, 34, 58, 34>> \o sub
        \o <<34, 44, 34, 105, 97, 116, 34, 58>> \o NumToStr(iat)
        \o <<44, 34, 101, 120, 112, 34, 58>> \o NumToStr(exp) \o CloseBrace

signTokenJose(userId, email, secret, ttlSeconds, ms) ==
    LET exp == UnixTime(ms) + ttlSeconds
        header == B64Encode(Utf8(JoseHeader))
        claims == B64Encode(Utf8(JoseClaims(email, userId, UnixTime(ms), exp)))
        sig == B64Encode(HmacDigest(secret, header \o <<46>> \o claims))
    IN  header \o <<46>> \o claims \o <<46>> \o sig

\* the checks jwtVerify makes on the claims it knows: exp and iat, when
\* present, are numbers, and exp lies after the current time (no tolerance
\* is configured)
JoseClaimsRefused(fields, ms) ==
    \/ fields["exp"].t \notin {"undefined", "number"}
    \/ fields["iat"].t \notin {"undefined", "number"}
    \/ fields["exp"].t = "number" /\ JsLessEq(fields["exp"], UnixTime(ms))

\* verifyToken of the jose profile: every exception of jwtVerify ends in the
\* catch branch
verifyTokenJose(token, secret, ms) ==
    LET parts == Split(token, 46)
    IN  IF Len(parts) # 3 THEN Null
        ELSE
        LET header == JsonParse(Utf8ToString(B64Decode(parts[1])))
            signed == parts[1] \o <<46>> \o parts[2]
            payload == JsonParse(Utf8ToString(B64Decode(parts[2])))
            userId == payload.fields["sub"]
            email == IF payload.fields["email"].t = "string"
                     THEN payload.fields["email"] ELSE JsNull
        IN  IF ~header.ok \/ header.fields["alg"] # JsStr(<<72, 83, 50, 53, 54>>)
            THEN Null
            ELSE IF B64Decode(parts[3]) # HmacDigest(secret, signed) THEN Null
            ELSE IF ~payload.ok \/ payload.kind # "object" THEN Null
            ELSE IF JoseClaimsRefused(payload.fields, ms) THEN Null
            ELSE IF Falsy(userId) \/ Falsy(email) THEN Null
            ELSE [ok |-> TRUE, userId |-> userId, email |-> email]

(***************************************************************************)
(* Credential hasher.                                                      *)
(***************************************************************************)
\* the key length asked of scrypt
KeyLen == 64

Zeros(n) == [i \in 1..n |-> 0]

\* scryptSync(password, salt, keylen): idealised as a collision-free function
\* with a keylen-byte result, an injective encoding of (password, salt) for
\* the short NUL-free strings of the model
Scrypt(password, salt, keylen) ==
    LET raw == Utf8(password) \o <<0>> \o Utf8(salt)
    IN  SubSeq(raw \o Zeros(keylen - Len(raw)), 1, keylen)

HexChar(v) == IF v < 10 THEN 48 + v ELSE 87 + v

\* the value of a hexadecimal digit of either case; -1 for any other character
HexVal(c) ==
    IF c >= 48 /\ c <= 57 THEN c - 48
    ELSE IF c >= 97 /\ c <= 102 THEN c - 87
    ELSE IF c >= 65 /\ c <= 70 THEN c - 55
    ELSE -1

\* buf.toString('hex')
HexEncode(b) ==
    [p \in 1..(2 * Len(b)) |->
        IF p % 2 = 1 THEN HexChar(b[(p + 1) \div 2] \div 16)
        ELSE HexChar(b[p \div 2] % 16)]

\* Buffer.from(s, 'hex'): whole pairs of digits, up to the first pair that is
\* not hexadecimal
HexDecode(s) ==
    LET pairs == Len(s) \div 2
        bad == {k \in 1..pairs : HexVal(s[2 * k - 1]) < 0 \/ HexVal(s[2 * k]) < 0}
        n == IF bad = {} THEN pairs ELSE Least(bad) - 1
    IN  [k \in 1..n |-> HexVal(s[2 * k - 1]) * 16 + HexVal(s[2 * k])]

hashPassword(password, salt) == HexEncode(Scrypt(password, salt, KeyLen))

\* the recomputed hash taken as raw text instead of being hex-decoded
verifyPassword_rawCompare(password, passwordHash, salt) ==
    LET nextHash == hashPassword(password, salt)
        a == HexDecode(passwordHash)
        b == Utf8(nextHash)
    IN  IF Len(a) # Len(b) THEN FALSE ELSE a = b

\* the digests compared by length alone
verifyPassword_lengthOnly(password, passwordHash, salt) ==
    LET nextHash == hashPassword(password, salt)
        a == HexDecode(passwordHash)
        b == HexDecode(nextHash)
    IN  Len(a) = Len(b)

\* timingSafeEqual throws a RangeError for inputs of different byte length
TimingSafeEqualThrows(a, b) == Len(a) # Len(b)

\* one execution of verifyPassword: its result, whether timingSafeEqual was
\* called, and whether an exception left the function
PasswordRun(password, passwordHash, salt) ==
    LET nextHash == hashPassword(password, salt)
        a == HexDecode(passwordHash)
        b == HexDecode(nextHash)
    IN  IF Len(a) # Len(b)
        THEN [res |-> FALSE, compared |-> FALSE, raised |-> FALSE]
        ELSE [res |-> ~TimingSafeEqualThrows(a, b) /\ a = b, compared |-> TRUE,
              raised |-> TimingSafeEqualThrows(a, b)]

\* the value verifyPassword returns
verifyPassword(password, passwordHash, salt) ==
    PasswordRun(password, passwordHash, salt).res

(***************************************************************************)
(* Inputs of the model.                                                    *)
(***************************************************************************)
UserIdStr(i) == <<117, 48 + i>>                          \* "u1", "u2", ...
EmailStr(i) == <<96 + i, 64, 98, 46, 99, 111, 109>>      \* "a@b.com", "b@b.com", ...
SecretStr(i) == <<107, 48 + i>>                          \* "k1", "k2", ...
PasswordStr(i) == <<112, 119, 48 + i>>                   \* "pw1", "pw2", ...

UserIds == {UserIdStr(i) : i \in 1..NumUsers}
Secrets == {SecretStr(i) : i \in 1..NumSecrets}
Passwords == {PasswordStr(i) : i \in 1..NumPasswords}

\* the clock advances by half a second or by the default time-to-live
ClockSteps == {500, 1000 * DefaultTtl}

\* time-to-live arguments: already expired, one second, one hour, the default
TtlChoices == {-1, 1, 3600, DefaultTtl}

(***************************************************************************)
(* States in which a component has not been used yet.                      *)
(***************************************************************************)
NoIssue ==
    [has |-> FALSE, profile |-> "none", userId |-> <<>>, email |-> <<>>,
     secret |-> <<>>, ttl |-> 0, atMs |-> 0, exp |-> 0, token |-> <<>>]

NoVerdict ==
    [has |-> FALSE, secret |-> <<>>, atMs |-> 0, res |-> Null, steps |-> <<>>,
     raised |-> FALSE]

NoStored == [has |-> FALSE, password |-> <<>>, salt |-> <<>>, hash |-> <<>>]

NoCheck ==
    [has |-> FALSE, password |-> <<>>, salt |-> <<>>, res |-> FALSE,
     compared |-> FALSE, raised |-> FALSE]

ClockInit == nowMs = 1000 * 1000 /\ ticks = 0

\* no payload has been signed by hand
NoCrafted ==
    [has |-> FALSE, profile |-> "none", userId |-> Undefined, email |-> Undefined,
     exp |-> Undefined, secret |-> <<>>]

CodecIdle ==
    /\ issued = NoIssue
    /\ presented = <<>>
    /\ tampered = "none"
    /\ verdict = NoVerdict
    /\ crafted = NoCrafted

HasherIdle == pwStored = NoStored /\ pwCheck = NoCheck

\* getBearerToken has not been called
NoExtraction == [has |-> FALSE, header |-> <<>>, token |-> <<>>]

HeaderIdle == extracted = NoExtraction

\* the names of the environment variables the server requires
REQUIRED_ENVS == {"PORT", "SALT", "JWT_SECRET", "DB_HOST", "UPLOAD_DIR"}

\* process.env[key] of a variable that is not set, and of one that is
Unset == [set |-> FALSE, value |-> <<>>]
EnvValue(s) == [set |-> TRUE, value |-> s]

NoBoot == [state |-> "off", missing |-> {}]

\* no process has been started
StartupIdle ==
    /\ env = [key \in REQUIRED_ENVS |-> Unset]
    /\ boot = NoBoot

\* req.user when no identity is attached; the result of a lookup that finds
\* nothing
NoUser == [id |-> <<>>, email |-> <<>>, password |-> <<>>]

NoClient ==
    [token |-> <<>>, from |-> "none", userId |-> <<>>, secret |-> <<>>,
     atMs |-> 0, exp |-> 0, loggedOut |-> FALSE]

\* a connection on which no request has arrived
NoRequest ==
    [pc |-> "idle", route |-> "", header |-> <<>>,
     payload |-> Null, verifiedAtMs |-> 0, findArg |-> <<>>, lookup |-> NoUser,
     user |-> NoUser,
     verifyCalls |-> 0, findCalls |-> 0, nextCalls |-> 0,
     error |-> "", status |-> 0,
     body |-> [email |-> <<>>, password |-> <<>>], signCalls |-> 0,
     token |-> <<>>]

\* the server does not run
ServerIdle ==
    /\ config = [salt |-> <<>>, jwtSecret |-> <<>>]
    /\ users = <<>>
    /\ client = NoClient
    /\ reqs = <<>>

(***************************************************************************)
(* The offer and favorite collections and the requests that write them.    *)
(***************************************************************************)
\* users are named by their index i, their _id being UserIdStr(i)
UserIndexes == 1..NumUsers
OfferIds == 1..MaxOffers

\* an offer id under which no document was created yet
NoOffer == [state |-> "absent", author |-> 0, title |-> 0, deleted |-> FALSE]

\* the favorite collection without rows: the number of rows per (user, offer)
NoRows == [p \in UserIndexes \X OfferIds |-> 0]

\* a connection on which no offer or favorite request has arrived; user 0 is
\* a request without req.user, author 0 is res.locals.offer not set
NoOp ==
    [pc |-> "idle", kind |-> "none", user |-> 0, offerId |-> 0, title |-> 0,
     author |-> 0, status |-> 0, calls |-> <<>>, ids |-> <<>>, listed |-> <<>>,
     raised |-> FALSE]

\* the controllers and repositories are not built
StoreIdle ==
    /\ build = [controller |-> "none", repository |-> "none"]
    /\ offers = [o \in OfferIds |-> NoOffer]
    /\ favorites = NoRows
    /\ ops = <<>>

(***************************************************************************)
(* The codec exercised as a pure function: a caller signs a token, the     *)
(* clock advances, and the token is verified under some secret.            *)
(***************************************************************************)
CodecInit ==
    ClockInit /\ CodecIdle /\ HasherIdle /\ HeaderIdle /\ StartupIdle /\ ServerIdle
    /\ StoreIdle

Tick ==
    /\ ticks < MaxTicks
    /\ \E d \in ClockSteps : nowMs' = nowMs + d
    /\ ticks' = ticks + 1
    /\ UNCHANGED <<headerVars, startupVars, storeVars,
                 codecVars, hasherVars, serverVars>>

\* one signToken call per run, at any time of the run
Issue(userId, email, secret, ttl) ==
    /\ ~issued.has
    /\ issued' = [has |-> TRUE, profile |-> "hmac", userId |-> userId,
                  email |-> email, secret |-> secret, ttl |-> ttl, atMs |-> nowMs,
                  exp |-> UnixTime(nowMs) + ttl,
                  token |-> signToken(userId, email, secret, ttl, nowMs)]
    /\ presented' = issued'.token
    /\ tampered' = "none"
    /\ verdict' = NoVerdict
    /\ UNCHANGED <<headerVars, startupVars, storeVars,
                 clockVars, crafted, hasherVars, serverVars>>

\* signToken called with any strings, the empty one included
CodecSign ==
    \E userId \in UserIds \cup {<<>>}, email \in {EmailStr(1), <<>>},
       secret \in Secrets, ttl \in TtlChoices :
        Issue(userId, email, secret, ttl)

CodecVerify ==
    /\ issued.has
    /\ issued.profile = "hmac"
    /\ \E secret \in Secrets :
        LET run == VerifyRun(presented, secret, nowMs)
        IN  verdict' = [has |-> TRUE, secret |-> secret, atMs |-> nowMs,
                        res |-> run.res, steps |-> run.steps,
                        raised |-> run.raised]
    /\ UNCHANGED <<headerVars, startupVars, storeVars,
                 clockVars, issued, presented, tampered, crafted, hasherVars, serverVars>>

CodecNext == CodecSign \/ CodecVerify \/ Tick

SpecCodec == CodecInit /\ [][CodecNext]_vars

(***************************************************************************)
(* The two token profiles side by side: a deployment has one of them in    *)
(* utils/token.ts, and verifies a token with the profile that signed it.   *)
(***************************************************************************)
JoseIssue(userId, email, secret, ttl) ==
    /\ ~issued.has
    /\ issued' = [has |-> TRUE, profile |-> "jose", userId |-> userId,
                  email |-> email, secret |-> secret, ttl |-> ttl, atMs |-> nowMs,
                  exp |-> UnixTime(nowMs) + ttl,
                  token |-> signTokenJose(userId, email, secret, ttl, nowMs)]
    /\ presented' = issued'.token
    /\ tampered' = "none"
    /\ verdict' = NoVerdict
    /\ UNCHANGED <<headerVars, startupVars, storeVars, clockVars, crafted, hasherVars, serverVars>>

JoseSign ==
    \E userId \in UserIds \cup {<<>>}, email \in {EmailStr(1), <<>>},
       secret \in Secrets, ttl \in TtlChoices :
        JoseIssue(userId, email, secret, ttl)

JoseVerify ==
    /\ issued.has
    /\ issued.profile = "jose"
    /\ \E secret \in Secrets :
        verdict' = [has |-> TRUE, secret |-> secret, atMs |-> nowMs,
                    res |-> verifyTokenJose(presented, secret, nowMs),
                    steps |-> <<>>, raised |-> FALSE]
    /\ UNCHANGED <<headerVars, startupVars, storeVars,
                 clockVars, issued, presented, tampered, crafted, hasherVars, serverVars>>

ProfilesNext == CodecSign \/ CodecVerify \/ JoseSign \/ JoseVerify \/ Tick

SpecProfiles == CodecInit /\ [][ProfilesNext]_vars

(***************************************************************************)
(* Payloads signed by hand: a holder of the secret signs a payload whose   *)
(* members are absent or of any type, and the token is verified.           *)
(***************************************************************************)
\* JSON.stringify of a member value; a fraction is written as .5
JsonValueText(v) ==
    CASE v.t = "string" -> <<34>> \o v.s \o <<34>>
      [] v.t = "number" -> NumToStr(v.n) \o (IF v.frac THEN <<46, 53>> ELSE <<>>)
      [] v.t = "boolean" -> IF v.n = 1 THEN <<116, 114, 117, 101>>
                            ELSE <<102, 97, 108, 115, 101>>
      [] OTHER -> <<110, 117, 108, 108>>

\* "name":value
JsonMember(key, v) == <<34>> \o KeyText(key) \o <<34, 58>> \o JsonValueText(v)

\* JSON.stringify of an object with the given members, in the given order;
\* undefined members are left out
RECURSIVE JsonMembers(_, _)
JsonMembers(keys, values) ==
    IF Len(keys) = 0 THEN <<>>
    ELSE IF values[1].t = "undefined" THEN JsonMembers(Tail(keys), Tail(values))
    ELSE LET rest == JsonMembers(Tail(keys), Tail(values))
         IN  JsonMember(keys[1], values[1])
                \o (IF rest = <<>> THEN <<>> ELSE <<44>> \o rest)

JsonObject(keys, values) == <<123>> \o JsonMembers(keys, values) \o <<125>>

\* the token of either profile for a payload with the given subject, email
\* and exp members
CraftedToken(profile, userId, email, exp, secret) ==
    IF profile = "hmac"
    THEN LET payloadB64 ==
                B64Encode(Utf8(JsonObject(<<"userId", "email", "exp">>,
                                          <<userId, email, exp>>)))
         IN  payloadB64 \o <<46>> \o B64Encode(HmacDigest(secret, payloadB64))
    ELSE LET signed ==
                B64Encode(Utf8(JoseHeader)) \o <<46>>
                    \o B64Encode(Utf8(JsonObject(<<"email", "sub", "exp">>,
                                                 <<email, userId, exp>>)))
         IN  signed \o <<46>> \o B64Encode(HmacDigest(secret, signed))

\* a time far after every time of the model
FarFuture == 99999999

SubjectChoices ==
    {Undefined, JsNull, JsBool(TRUE), JsNum(7, FALSE), JsStr(<<>>), JsStr(UserIdStr(1))}

EmailChoices ==
    {Undefined, JsBool(TRUE), JsNum(7, FALSE), JsStr(<<>>), JsStr(EmailStr(1))}

\* absent, null, true, the strings "soon" and "99999999", zero, a whole
\* number of seconds, and a number of seconds with a fraction
ExpChoices ==
    {Undefined, JsNull, JsBool(TRUE), JsStr(<<115, 111, 111, 110>>),
     JsStr(NumToStr(FarFuture)), JsNum(0, FALSE), JsNum(FarFuture, FALSE),
     JsNum(FarFuture, TRUE)}

CraftSign ==
    /\ ~crafted.has
    /\ \E profile \in {"hmac", "jose"}, userId \in SubjectChoices,
          email \in EmailChoices, exp \in ExpChoices, secret \in Secrets :
        /\ crafted' = [has |-> TRUE, profile |-> profile, userId |-> userId,
                       email |-> email, exp |-> exp, secret |-> secret]
        /\ presented' = CraftedToken(profile, userId, email, exp, secret)
    /\ verdict' = NoVerdict
    /\ UNCHANGED <<headerVars, startupVars, storeVars, clockVars, issued, tampered,
                   hasherVars, serverVars>>

\* the token is verified with the profile it was made for
CraftVerify ==
    /\ crafted.has
    /\ \E secret \in Secrets :
        verdict' = [has |-> TRUE, secret |-> secret, atMs |-> nowMs,
                    res |-> IF crafted.profile = "hmac"
                            THEN verifyToken(presented, secret, nowMs)
                            ELSE verifyTokenJose(presented, secret, nowMs),
                    steps |-> IF crafted.profile = "hmac"
                              THEN VerifyRun(presented, secret, nowMs).steps
                              ELSE <<>>,
                    raised |-> IF crafted.profile = "hmac"
                               THEN VerifyRun(presented, secret, nowMs).raised
                               ELSE FALSE]
    /\ UNCHANGED <<headerVars, startupVars, storeVars, clockVars, issued, presented,
                   tampered, crafted, hasherVars, serverVars>>

CraftNext == CraftSign \/ CraftVerify

SpecCraft == CodecInit /\ [][CraftNext]_vars

(***************************************************************************)
(* Tampering: one bit of one character of a signed token is flipped before *)
(* the token is verified.                                                  *)
(***************************************************************************)
FlipBit(c, k) == IF (c \div (2 ^ k)) % 2 = 1 THEN c - 2 ^ k ELSE c + 2 ^ k

TamperSign ==
    \E userId \in UserIds, secret \in Secrets :
        Issue(userId, EmailStr(1), secret, 3600)

TamperBit ==
    /\ issued.has
    /\ tampered = "none"
    /\ \E pos \in 1..Len(presented), k \in 0..7 :
        /\ presented[pos] # 46
        /\ presented' = [presented EXCEPT ![pos] = FlipBit(presented[pos], k)]
        /\ tampered' = IF pos < IndexOf(presented, 46) THEN "payload" ELSE "signature"
    /\ verdict' = NoVerdict
    /\ UNCHANGED <<headerVars, startupVars, storeVars,
                 clockVars, issued, crafted, hasherVars, serverVars>>

TamperNext == TamperSign \/ TamperBit \/ CodecVerify

SpecTamper == CodecInit /\ [][TamperNext]_vars

(***************************************************************************)
(* Malformed tokens: a signed token is taken apart and put together with   *)
(* no dot, with more dots, or with an empty segment, before it is verified. *)
(***************************************************************************)
\* the text before the first dot of a token, and the text after it
PayloadSegment(token) == SubSeq(token, 1, IndexOf(token, 46) - 1)

SignatureSegment(token) == Drop(token, IndexOf(token, 46))

\* the token argument of verifyToken with its dot removed, or empty
MalformNoDot ==
    /\ issued.has
    /\ tampered = "none"
    /\ presented' \in {PayloadSegment(presented) \o SignatureSegment(presented),
                       PayloadSegment(presented), <<>>}
    /\ tampered' = "nodot"
    /\ verdict' = NoVerdict
    /\ UNCHANGED <<headerVars, startupVars, storeVars,
                 clockVars, issued, crafted, hasherVars, serverVars>>

\* one more dot, at any place of the token: in front, inside a segment,
\* next to the dot, at the end
MalformMoreDots ==
    /\ issued.has
    /\ tampered = "none"
    /\ \E pos \in 0..Len(presented) :
        presented' = SubSeq(presented, 1, pos) \o <<46>> \o Drop(presented, pos)
    /\ tampered' = "dots"
    /\ verdict' = NoVerdict
    /\ UNCHANGED <<headerVars, startupVars, storeVars,
                 clockVars, issued, crafted, hasherVars, serverVars>>

\* nothing before the dot; after it the signature of the token, nothing, or
\* the HMAC of the empty payload segment under some secret
MalformEmptyPayload ==
    /\ issued.has
    /\ tampered = "none"
    /\ \E secret \in Secrets :
        presented' \in {<<46>> \o SignatureSegment(presented),
                        <<46>>,
                        <<46>> \o B64Encode(HmacDigest(secret, <<>>))}
    /\ tampered' = "nopayload"
    /\ verdict' = NoVerdict
    /\ UNCHANGED <<headerVars, startupVars, storeVars,
                 clockVars, issued, crafted, hasherVars, serverVars>>

\* nothing after the dot
MalformEmptySignature ==
    /\ issued.has
    /\ tampered = "none"
    /\ presented' = PayloadSegment(presented) \o <<46>>
    /\ tampered' = "nosignature"
    /\ verdict' = NoVerdict
    /\ UNCHANGED <<headerVars, startupVars, storeVars,
                 clockVars, issued, crafted, hasherVars, serverVars>>

MalformedNext ==
    \/ TamperSign
    \/ MalformNoDot
    \/ MalformMoreDots
    \/ MalformEmptyPayload
    \/ MalformEmptySignature
    \/ CodecVerify

SpecMalformed == CodecInit /\ [][MalformedNext]_vars

(***************************************************************************)
(* The hasher exercised as a pure function: a password is hashed under a   *)
(* pepper, and a candidate password is verified against the stored hash.   *)
(***************************************************************************)
HasherInit ==
    ClockInit /\ CodecIdle /\ HasherIdle /\ HeaderIdle /\ StartupIdle /\ ServerIdle
    /\ StoreIdle

HasherHash ==
    /\ ~pwStored.has
    /\ \E password \in Passwords \cup {<<>>}, salt \in Secrets :
        pwStored' = [has |-> TRUE, password |-> password, salt |-> salt,
                     hash |-> hashPassword(password, salt)]
    /\ UNCHANGED <<headerVars, startupVars, storeVars,
                 clockVars, codecVars, pwCheck, serverVars>>

HasherVerify ==
    /\ pwStored.has
    /\ \E password \in Passwords \cup {<<>>}, salt \in Secrets :
        LET run == PasswordRun(password, pwStored.hash, salt)
        IN  pwCheck' = [has |-> TRUE, password |-> password, salt |-> salt,
                        res |-> verifyPassword(password, pwStored.hash, salt),
                        compared |-> run.compared, raised |-> run.raised]
    /\ UNCHANGED <<headerVars, startupVars, storeVars,
                 clockVars, codecVars, pwStored, serverVars>>

HasherNext == HasherHash \/ HasherVerify

SpecHasher == HasherInit /\ [][HasherNext]_vars

(***************************************************************************)
(* Inputs no caller of the repository produces: a payload text of any      *)
(* shape signed with the secret, a payload segment that is no base64url,   *)
(* and a stored digest that is no hash of the hasher.                      *)
(***************************************************************************)
\* payload texts: null, 7, "x", true, {}, an unfinished object, nothing,
\* and a word that is no JSON
RawPayloadTexts ==
    {<<110, 117, 108, 108>>, <<55>>, <<34, 120, 34>>, <<116, 114, 117, 101>>,
     <<123, 125>>, <<123, 34, 117>>, <<>>, <<110, 117, 108>>}

\* payload segments: the base64url of the texts, characters outside the
\* alphabet, and the base64url of the bytes FF FE
RawSegments ==
    {B64Encode(Utf8(text)) : text \in RawPayloadTexts}
        \cup {<<33, 33, 33, 33>>, B64Encode(<<255, 254>>)}

\* a holder of the secret signs a payload segment as signToken does
RawSign ==
    /\ ~crafted.has
    /\ \E payloadB64 \in RawSegments, secret \in Secrets :
        /\ crafted' = [NoCrafted EXCEPT !.has = TRUE, !.profile = "hmac",
                                        !.secret = secret]
        /\ presented' = payloadB64 \o <<46>>
                            \o B64Encode(HmacDigest(secret, payloadB64))
    /\ verdict' = NoVerdict
    /\ UNCHANGED <<headerVars, startupVars, storeVars, clockVars, issued, tampered,
                   hasherVars, serverVars>>

\* stored texts made from a hash: nothing, an odd number of digits, text
\* that is not hexadecimal from some place on, a hash one digit short, a
\* hash with a byte more, the hash in capital digits
RawDigests(hash) ==
    {<<>>, <<97, 98, 99>>, SubSeq(hash, 1, 64) \o <<120, 121>>,
     SubSeq(hash, 1, Len(hash) - 1), hash \o <<48, 48>>,
     [i \in 1..Len(hash) |-> IF hash[i] >= 97 THEN hash[i] - 32 ELSE hash[i]]}

\* the user record holds a text that hashPassword did not return
HasherStoreRaw ==
    /\ ~pwStored.has
    /\ \E raw \in RawDigests(hashPassword(PasswordStr(1), SecretStr(1))) :
        pwStored' = [has |-> TRUE, password |-> PasswordStr(1),
                     salt |-> SecretStr(1), hash |-> raw]
    /\ UNCHANGED <<headerVars, startupVars, storeVars,
                 clockVars, codecVars, pwCheck, serverVars>>

RawNext ==
    \/ RawSign
    \/ CraftVerify
    \/ HasherStoreRaw
    \/ HasherVerify

SpecRaw == CodecInit /\ [][RawNext]_vars

(***************************************************************************)
(* Startup: ConfigService is constructed from the process environment.     *)
(***************************************************************************)
\* the filter of the constructor without the trim
IsMissing_noTrim(v) == ~v.set \/ v.value = <<>>

\* the filter of the constructor: !value || !value.trim()
IsMissing(v) == ~v.set \/ v.value = <<>> \/ Trim(v.value) = <<>>

\* the convict format 'port': a decimal integer from 0 to 65535
IsPort(s) == IsDigits(s) /\ Len(s) <= 5 /\ DigitsValue(s) <= 65535

\* conf.validate({ allowed: 'strict' }): the port is the only value with a
\* format narrower than String
Validates(e) == IsPort(e["PORT"].value)

\* the constructor of ConfigService run in environment e: the names it
\* reports missing, and whether it returns or throws
Construct(e) ==
    LET missing == {key \in REQUIRED_ENVS : IsMissing(e[key])}
    IN  IF missing # {} THEN [state |-> "failed", missing |-> missing]
        ELSE IF ~Validates(e) THEN [state |-> "failed", missing |-> {}]
        ELSE [state |-> "running", missing |-> {}]

\* conf.get('app.salt') and conf.get('app.jwtSecret'): convict loads the
\* values of SALT and JWT_SECRET from the environment, '' when not set
Loaded(e) == [salt |-> e["SALT"].value, jwtSecret |-> e["JWT_SECRET"].value]

\* values of an environment variable: not set, empty, blank, a port number,
\* a name, a secret
EnvChoices ==
    {Unset, EnvValue(<<>>), EnvValue(<<32, 9>>), EnvValue(<<51, 48, 48, 48>>),
     EnvValue(<<32, 100, 98, 32>>)}
        \cup {EnvValue(SecretStr(i)) : i \in 1..NumSecrets}

ConfigInit ==
    /\ ClockInit
    /\ CodecIdle
    /\ HasherIdle
    /\ HeaderIdle
    /\ StoreIdle
    /\ ServerIdle
    /\ boot = NoBoot
    /\ env \in [REQUIRED_ENVS -> EnvChoices]

\* new ConfigService(): the process stops when the constructor throws, and
\* otherwise holds the configuration it loaded
ConfigConstruct ==
    /\ boot.state = "off"
    /\ boot' = Construct(env)
    /\ config' = IF boot'.state = "running" THEN Loaded(env) ELSE config
    /\ UNCHANGED <<clockVars, codecVars, hasherVars, headerVars, storeVars, env,
                   users, client, reqs>>

ConfigNext == ConfigConstruct

SpecConfig == ConfigInit /\ [][ConfigNext]_vars

(***************************************************************************)
(* The server: configuration, user collection, login, and the routes that  *)
(* sit behind an authentication gate.                                      *)
(***************************************************************************)
\* ConfigService.getSalt() and getJwtSecret()
getSalt == config.salt
getJwtSecret == config.jwtSecret

\* IUserRepository.findById and findByEmail: the user or nothing
findById(id) ==
    IF \E i \in 1..Len(users) : users[i].id = id
    THEN users[CHOOSE i \in 1..Len(users) : users[i].id = id]
    ELSE NoUser

findByEmail(email) ==
    IF \E i \in 1..Len(users) : users[i].email = email
    THEN users[CHOOSE i \in 1..Len(users) : users[i].email = email]
    ELSE NoUser

\* routes of the four controllers that an authentication gate protects
Routes ==
    {"GET /auth/status", "POST /auth/logout", "POST /offers/:offerId/comments",
     "GET /favorites", "GET /offers", "POST /offers"}

Controller(route) ==
    CASE route = "GET /auth/status" -> "auth"
      [] route = "POST /auth/logout" -> "auth"
      [] route = "POST /offers/:offerId/comments" -> "comment"
      [] route = "GET /favorites" -> "favorite"
      [] OTHER -> "offer"

\* the gate class placed in front of the route's handler
Policy(route) == IF route = "GET /offers" THEN "optional" ELSE "required"

\* the secret each controller hands to the gates it builds
GateSecret(controller) ==
    CASE controller = "auth" -> getJwtSecret
      [] controller = "favorite" -> getJwtSecret
      [] controller = "comment" -> getSalt
      [] OTHER -> getSalt

\* the secret AuthController.login signs with
LoginSecret == getJwtSecret

\* the status of the handler's own response
SuccessStatus(route) ==
    IF route \in {"POST /offers/:offerId/comments", "POST /offers"} THEN 201
    ELSE IF route = "POST /auth/logout" THEN 204
    ELSE 200

Bearer(token) == <<66, 101, 97, 114, 101, 114, 32>> \o token    \* "Bearer <token>"
TokenAbc == <<84, 111, 107, 101, 110, 32, 97, 98, 99>>          \* "Token abc"
BearerAbc == Bearer(<<97, 98, 99>>)                             \* "Bearer abc"

\* getBearerToken without the test of the scheme
getBearerToken_anyScheme(header) ==
    IF header = <<>> THEN <<>>
    ELSE
    LET parts == Split(header, 32)
        token == IF Len(parts) >= 2 THEN parts[2] ELSE <<>>
    IN  token

\* the token of the Authorization header; the empty string stands for null
\* (an empty token is refused by the same test)
getBearerToken(header) ==
    IF header = <<>> THEN <<>>
    ELSE
    LET parts == Split(header, 32)
        type == parts[1]
        token == IF Len(parts) >= 2 THEN parts[2] ELSE <<>>
    IN  IF type # <<66, 101, 97, 114, 101, 114>> \/ token = <<>> THEN <<>>
        ELSE token

\* next(new HttpError(401, message)): the exception filter answers with the
\* error's status and message, the handler is not reached
Reject(rq, message) ==
    [rq EXCEPT !.pc = "done", !.nextCalls = @ + 1, !.error = message,
               !.status = 401]

\* next(): the request goes on to its handler
Continue(rq) == [rq EXCEPT !.pc = "handler", !.nextCalls = @ + 1]

\* what the client observes of a finished request: res.status(...) and the
\* member `error` of the JSON body written by the exception filter
Response(rq) == [status |-> rq.status, body |-> rq.error]

\* AuthMiddleware.execute lets a request without a token through
AuthStart_passNoToken(rq) ==
    LET token == getBearerToken(rq.header)
    IN  IF token = <<>> THEN Continue(rq)
        ELSE [rq EXCEPT !.pc = "verify"]

\* AuthMiddleware.execute up to its first await
AuthStart(rq) ==
    LET token == getBearerToken(rq.header)
    IN  IF token = <<>> THEN Reject(rq, "Unauthorized")
        ELSE [rq EXCEPT !.pc = "verify"]

\* AuthMiddleware.execute goes on to the lookup whatever verifyToken returned
AuthVerified_lookupAnyway(rq, payload) ==
    [rq EXCEPT !.pc = "lookup", !.payload = payload]

\* AuthMiddleware.execute from the result of verifyToken to its second await
AuthVerified(rq, payload) ==
    IF ~payload.ok THEN Reject(rq, "Invalid token")
    ELSE [rq EXCEPT !.pc = "lookup", !.payload = payload]

\* AuthMiddleware.execute fails to attach the user it found
AuthFound_noAttach(rq, user) ==
    IF user = NoUser THEN Reject(rq, "User not found")
    ELSE Continue(rq)

\* AuthMiddleware.execute from the result of findById to its end
AuthFound(rq, user) ==
    IF user = NoUser THEN Reject(rq, "User not found")
    ELSE Continue([rq EXCEPT !.user = user])

\* OptionalAuthMiddleware.execute, in the same three parts
OptionalStart(rq) ==
    LET token == getBearerToken(rq.header)
    IN  IF token = <<>> THEN Continue(rq)
        ELSE [rq EXCEPT !.pc = "verify"]

\* OptionalAuthMiddleware.execute refuses a token that fails verification
OptionalVerified_reject(rq, payload) ==
    IF ~payload.ok THEN Reject(rq, "Invalid token")
    ELSE [rq EXCEPT !.pc = "lookup", !.payload = payload]

\* OptionalAuthMiddleware.execute takes the identity from the payload of the
\* token instead of asking the repository for the user
OptionalVerified_attachPayload(rq, payload) ==
    IF ~payload.ok THEN Continue(rq)
    ELSE Continue([rq EXCEPT !.payload = payload,
                             !.user = [id |-> payload.userId.s,
                                       email |-> payload.email.s,
                                       password |-> <<>>]])

OptionalVerified(rq, payload) ==
    IF ~payload.ok THEN Continue(rq)
    ELSE [rq EXCEPT !.pc = "lookup", !.payload = payload]

\* OptionalAuthMiddleware.execute fails to attach the user it found
OptionalFound_noAttach(rq, user) == Continue(rq)

OptionalFound(rq, user) ==
    IF user = NoUser THEN Continue(rq)
    ELSE Continue([rq EXCEPT !.user = user])

\* the handlers behind a required gate throw 401 without req.user, except
\* logout, which does not look at it; the handler behind the optional gate
\* serves anyone
HandlerStatus(rq) ==
    IF /\ Policy(rq.route) = "required"
       /\ rq.route # "POST /auth/logout"
       /\ rq.user = NoUser
    THEN 401
    ELSE SuccessStatus(rq.route)

\* the process has started: configuration loaded, no user, no token issued
ServerStart ==
    /\ ClockInit
    /\ CodecIdle
    /\ HasherIdle
    /\ HeaderIdle
    /\ StoreIdle
    /\ \E jwt \in Secrets :
        env = [key \in REQUIRED_ENVS |->
                  CASE key = "PORT" -> EnvValue(<<51, 48, 48, 48>>)
                    [] key = "SALT" -> EnvValue(SecretStr(1))
                    [] key = "JWT_SECRET" -> EnvValue(jwt)
                    [] OTHER -> EnvValue(<<100, 98>>)]
    /\ boot = Construct(env)
    /\ boot.state = "running"
    /\ config = Loaded(env)
    /\ users = <<>>
    /\ client = NoClient

\* the server serves one connection
ServerInit == ServerStart /\ reqs = <<NoRequest>>

ServerTick ==
    /\ ticks < MaxTicks
    /\ nowMs' = nowMs + 1000 * DefaultTtl
    /\ ticks' = ticks + 1
    /\ UNCHANGED <<headerVars, startupVars, storeVars,
                 codecVars, hasherVars, serverVars>>

\* AuthController.create: POST /auth/register; a taken email is a conflict
\* and changes nothing
Register ==
    /\ \E i \in 1..NumUsers :
        /\ findByEmail(EmailStr(i)) = NoUser
        /\ users' = Append(users,
                [id |-> UserIdStr(Len(users) + 1), email |-> EmailStr(i),
                 password |-> hashPassword(PasswordStr(1), getSalt)])
    /\ UNCHANGED <<headerVars, startupVars, storeVars,
                 clockVars, codecVars, hasherVars, config, client, reqs>>

\* AuthController.login signs a token that lives one hour
Login_hourToken ==
    /\ client.from = "none"
    /\ \E i \in 1..NumUsers, password \in {PasswordStr(1), PasswordStr(2)} :
        LET user == findByEmail(EmailStr(i))
        IN  IF user = NoUser \/ user.password = <<>> THEN UNCHANGED client
            ELSE IF ~verifyPassword(password, user.password, getSalt)
                 THEN UNCHANGED client
            ELSE client' =
                    [token |-> signToken(user.id, user.email, LoginSecret,
                                         3600, nowMs),
                     from |-> "login", userId |-> user.id,
                     secret |-> LoginSecret, atMs |-> nowMs,
                     exp |-> UnixTime(nowMs) + 3600, loggedOut |-> FALSE]
    /\ UNCHANGED <<headerVars, startupVars, storeVars,
                 clockVars, codecVars, hasherVars, config, users, reqs>>

\* AuthController.login: POST /auth/login; the client keeps the token of a
\* successful login, a refused login leaves it without one; the client
\* obtains one token per run, at any time of the run
Login ==
    /\ client.from = "none"
    /\ \E i \in 1..NumUsers, password \in {PasswordStr(1), PasswordStr(2)} :
        LET user == findByEmail(EmailStr(i))
        IN  IF user = NoUser \/ user.password = <<>> THEN UNCHANGED client
            ELSE IF ~verifyPassword(password, user.password, getSalt)
                 THEN UNCHANGED client
            ELSE client' =
                    [token |-> signToken(user.id, user.email, LoginSecret,
                                         DefaultTtl, nowMs),
                     from |-> "login", userId |-> user.id,
                     secret |-> LoginSecret, atMs |-> nowMs,
                     exp |-> UnixTime(nowMs) + DefaultTtl, loggedOut |-> FALSE]
    /\ UNCHANGED <<headerVars, startupVars, storeVars,
                 clockVars, codecVars, hasherVars, config, users, reqs>>

\* a token signed outside the login route by a holder of one of the two
\* configured secrets, for any subject, with a time-to-live of one hour
SignElsewhere ==
    /\ client.from = "none"
    /\ \E userId \in UserIds, secret \in {getSalt, getJwtSecret} :
        client' = [token |-> signToken(userId, EmailStr(1), secret, 3600, nowMs),
                   from |-> "elsewhere", userId |-> userId, secret |-> secret,
                   atMs |-> nowMs, exp |-> UnixTime(nowMs) + 3600,
                   loggedOut |-> FALSE]
    /\ UNCHANGED <<headerVars, startupVars, storeVars,
                 clockVars, codecVars, hasherVars, config, users, reqs>>

\* the Authorization headers a client sends: none, a wrong scheme, a token
\* that is no token, the token it holds
Headers ==
    {<<>>, TokenAbc, BearerAbc}
        \cup (IF client.token = <<>> THEN {} ELSE {Bearer(client.token)})

Arrive(r) ==
    /\ reqs[r].pc = "idle"
    /\ \E route \in Routes, header \in Headers :
        reqs' = [reqs EXCEPT ![r] =
                    [NoRequest EXCEPT !.pc = "gate", !.route = route,
                                      !.header = header]]
    /\ UNCHANGED <<headerVars, startupVars, storeVars,
                 clockVars, codecVars, hasherVars, config, users, client>>

AuthExecuteStart(r) ==
    /\ reqs[r].pc = "gate"
    /\ Policy(reqs[r].route) = "required"
    /\ reqs' = [reqs EXCEPT ![r] = AuthStart(@)]
    /\ UNCHANGED <<headerVars, startupVars, storeVars,
                 clockVars, codecVars, hasherVars, config, users, client>>

AuthExecuteVerify(r) ==
    /\ reqs[r].pc = "verify"
    /\ Policy(reqs[r].route) = "required"
    /\ LET secret == GateSecret(Controller(reqs[r].route))
           token == getBearerToken(reqs[r].header)
           payload == verifyToken(token, secret, nowMs)
       IN  reqs' = [reqs EXCEPT ![r] =
                AuthVerified([@ EXCEPT !.verifyCalls = @ + 1,
                                       !.verifiedAtMs = nowMs], payload)]
    /\ UNCHANGED <<headerVars, startupVars, storeVars,
                 clockVars, codecVars, hasherVars, config, users, client>>

\* the payload used for the lookup is that of any request suspended at
\* findById, as if the gate kept it in a field of its own
AuthExecuteLookup_sharedPayload(r) ==
    /\ reqs[r].pc = "lookup"
    /\ Policy(reqs[r].route) = "required"
    /\ \E q \in DOMAIN reqs :
        /\ reqs[q].pc = "lookup"
        /\ LET user == findById(reqs[q].payload.userId.s)
           IN  reqs' = [reqs EXCEPT ![r] =
                   AuthFound([@ EXCEPT !.findCalls = @ + 1,
                              !.findArg = reqs[q].payload.userId.s,
                              !.lookup = user], user)]
    /\ UNCHANGED <<headerVars, startupVars, storeVars,
                 clockVars, codecVars, hasherVars, config, users, client>>

AuthExecuteLookup(r) ==
    /\ reqs[r].pc = "lookup"
    /\ Policy(reqs[r].route) = "required"
    /\ LET user == findById(reqs[r].payload.userId.s)
       IN  reqs' = [reqs EXCEPT ![r] =
               AuthFound([@ EXCEPT !.findCalls = @ + 1,
                          !.findArg = reqs[r].payload.userId.s,
                          !.lookup = user], user)]
    /\ UNCHANGED <<headerVars, startupVars, storeVars,
                 clockVars, codecVars, hasherVars, config, users, client>>

OptionalExecuteStart(r) ==
    /\ reqs[r].pc = "gate"
    /\ Policy(reqs[r].route) = "optional"
    /\ reqs' = [reqs EXCEPT ![r] = OptionalStart(@)]
    /\ UNCHANGED <<headerVars, startupVars, storeVars,
                 clockVars, codecVars, hasherVars, config, users, client>>

OptionalExecuteVerify(r) ==
    /\ reqs[r].pc = "verify"
    /\ Policy(reqs[r].route) = "optional"
    /\ LET secret == GateSecret(Controller(reqs[r].route))
           token == getBearerToken(reqs[r].header)
           payload == verifyToken(token, secret, nowMs)
       IN  reqs' = [reqs EXCEPT ![r] =
                OptionalVerified([@ EXCEPT !.verifyCalls = @ + 1,
                                           !.verifiedAtMs = nowMs], payload)]
    /\ UNCHANGED <<headerVars, startupVars, storeVars,
                 clockVars, codecVars, hasherVars, config, users, client>>

OptionalExecuteLookup(r) ==
    /\ reqs[r].pc = "lookup"
    /\ Policy(reqs[r].route) = "optional"
    /\ LET user == findById(reqs[r].payload.userId.s)
       IN  reqs' = [reqs EXCEPT ![r] =
               OptionalFound([@ EXCEPT !.findCalls = @ + 1,
                          !.findArg = reqs[r].payload.userId.s,
                          !.lookup = user], user)]
    /\ UNCHANGED <<headerVars, startupVars, storeVars,
                 clockVars, codecVars, hasherVars, config, users, client>>

\* the client has logged out once POST /auth/logout, sent with its token,
\* has answered 204
LoggedOut(rq) ==
    IF /\ rq.route = "POST /auth/logout"
       /\ HandlerStatus(rq) = 204
       /\ client.from # "none"
       /\ rq.header = Bearer(client.token)
    THEN [client EXCEPT !.loggedOut = TRUE]
    ELSE client

\* logout revokes the tokens in circulation by changing the signing secret
Handle_logoutRevokes(r) ==
    /\ reqs[r].pc = "handler"
    /\ reqs' = [reqs EXCEPT ![r] =
                    [@ EXCEPT !.pc = "done", !.status = HandlerStatus(reqs[r])]]
    /\ client' = LoggedOut(reqs[r])
    /\ config' = IF reqs[r].route = "POST /auth/logout"
                 THEN [config EXCEPT !.jwtSecret = @ \o <<33>>]
                 ELSE config
    /\ UNCHANGED <<headerVars, startupVars, storeVars,
                 clockVars, codecVars, hasherVars, users>>

\* the route's handler answers; no handler of the model writes server state
Handle(r) ==
    /\ reqs[r].pc = "handler"
    /\ reqs' = [reqs EXCEPT ![r] =
                    [@ EXCEPT !.pc = "done", !.status = HandlerStatus(reqs[r])]]
    /\ client' = LoggedOut(reqs[r])
    /\ UNCHANGED <<headerVars, startupVars, storeVars,
                 clockVars, codecVars, hasherVars, config, users>>

\* the response is sent and the connection is free for the next request
Close(r) ==
    /\ reqs[r].pc = "done"
    /\ reqs' = [reqs EXCEPT ![r] = NoRequest]
    /\ UNCHANGED <<headerVars, startupVars, storeVars,
                 clockVars, codecVars, hasherVars, config, users, client>>

Next ==
    \/ ServerTick
    \/ Register
    \/ Login
    \/ SignElsewhere
    \/ \E r \in DOMAIN reqs : Arrive(r)
    \/ \E r \in DOMAIN reqs : AuthExecuteStart(r)
    \/ \E r \in DOMAIN reqs : AuthExecuteVerify(r)
    \/ \E r \in DOMAIN reqs : AuthExecuteLookup(r)
    \/ \E r \in DOMAIN reqs : OptionalExecuteStart(r)
    \/ \E r \in DOMAIN reqs : OptionalExecuteVerify(r)
    \/ \E r \in DOMAIN reqs : OptionalExecuteLookup(r)
    \/ \E r \in DOMAIN reqs : Handle(r)
    \/ \E r \in DOMAIN reqs : Close(r)

Spec == ServerInit /\ [][Next]_vars

(***************************************************************************)
(* Concurrency: several connections, each with a request of its own going  *)
(* through a gate; the steps of the gates interleave at every await.       *)
(***************************************************************************)
ConcurrentRoutes == {"POST /offers", "GET /offers"}

\* the subjects of the tokens in circulation
ConcurrentSubjects == {UserIdStr(1), UserIdStr(2)}

\* the Authorization headers of the concurrent requests: none, a token that
\* is no token, and one-hour tokens signed at startup with the secret of
\* the gates, one per subject
ConcurrentHeaders ==
    {<<>>, BearerAbc}
        \cup {Bearer(signToken(userId, EmailStr(1), GateSecret("offer"), 3600,
                               1000 * 1000)) : userId \in ConcurrentSubjects}

\* the server serves two connections
ConcurrentInit == ServerStart /\ reqs = <<NoRequest, NoRequest>>

ConcurrentArrive(r) ==
    /\ reqs[r].pc = "idle"
    /\ \E route \in ConcurrentRoutes, header \in ConcurrentHeaders :
        reqs' = [reqs EXCEPT ![r] =
                    [NoRequest EXCEPT !.pc = "gate", !.route = route,
                                      !.header = header]]
    /\ UNCHANGED <<headerVars, startupVars, storeVars,
                 clockVars, codecVars, hasherVars, config, users, client>>

ConcurrentNext ==
    \/ ServerTick
    \/ Register
    \/ \E r \in DOMAIN reqs : ConcurrentArrive(r)
    \/ \E r \in DOMAIN reqs : AuthExecuteStart(r)
    \/ \E r \in DOMAIN reqs : AuthExecuteVerify(r)
    \/ \E r \in DOMAIN reqs : AuthExecuteLookup(r)
    \/ \E r \in DOMAIN reqs : OptionalExecuteStart(r)
    \/ \E r \in DOMAIN reqs : OptionalExecuteVerify(r)
    \/ \E r \in DOMAIN reqs : OptionalExecuteLookup(r)
    \/ \E r \in DOMAIN reqs : Handle(r)

SpecConcurrent == ConcurrentInit /\ [][ConcurrentNext]_vars

(***************************************************************************)
(* The two gate classes side by side: one request is handed to             *)
(* AuthMiddleware.execute and to OptionalAuthMiddleware.execute, and each   *)
(* call of a collaborator returns the same value to both.                  *)
(***************************************************************************)
\* the routes behind the required gate; the optional gate has one route
RequiredRoutes == {route \in Routes : Policy(route) = "required"}

\* what verifyToken may return: null, or the payload of any subject
VerifyOutcomes ==
    {Null} \cup {[ok |-> TRUE, userId |-> JsStr(userId), email |-> JsStr(EmailStr(1))] :
                    userId \in UserIds}

\* what findById may return: nothing, or a stored user
LookupOutcomes ==
    {NoUser} \cup {[id |-> userId, email |-> EmailStr(1),
                    password |-> hashPassword(PasswordStr(1), getSalt)] :
                        userId \in UserIds}

\* connection 1 leads to the required gate, connection 2 to the optional one
TwinInit == ServerStart /\ reqs = <<NoRequest, NoRequest>>

TwinArrive ==
    /\ reqs[1].pc = "idle"
    /\ reqs[2].pc = "idle"
    /\ \E route \in RequiredRoutes, header \in ConcurrentHeaders \cup {TokenAbc} :
        reqs' = <<[NoRequest EXCEPT !.pc = "gate", !.route = route,
                                    !.header = header],
                  [NoRequest EXCEPT !.pc = "gate", !.route = "GET /offers",
                                    !.header = header]>>
    /\ UNCHANGED <<headerVars, startupVars, storeVars,
                 clockVars, codecVars, hasherVars, config, users, client>>

TwinStart ==
    /\ reqs[1].pc = "gate"
    /\ reqs[2].pc = "gate"
    /\ reqs' = <<AuthStart(reqs[1]), OptionalStart(reqs[2])>>
    /\ UNCHANGED <<headerVars, startupVars, storeVars,
                 clockVars, codecVars, hasherVars, config, users, client>>

\* verifyToken returns; a gate that is not waiting for it is left alone
TwinVerify ==
    /\ reqs[1].pc = "verify" \/ reqs[2].pc = "verify"
    /\ \E payload \in VerifyOutcomes :
        reqs' = <<IF reqs[1].pc = "verify"
                  THEN AuthVerified([reqs[1] EXCEPT !.verifyCalls = @ + 1,
                                                    !.verifiedAtMs = nowMs], payload)
                  ELSE reqs[1],
                  IF reqs[2].pc = "verify"
                  THEN OptionalVerified([reqs[2] EXCEPT !.verifyCalls = @ + 1,
                                                        !.verifiedAtMs = nowMs], payload)
                  ELSE reqs[2]>>
    /\ UNCHANGED <<headerVars, startupVars, storeVars,
                 clockVars, codecVars, hasherVars, config, users, client>>

\* findById returns; a gate that is not waiting for it is left alone
TwinLookup ==
    /\ reqs[1].pc = "lookup" \/ reqs[2].pc = "lookup"
    /\ \E user \in LookupOutcomes :
        reqs' = <<IF reqs[1].pc = "lookup"
                  THEN AuthFound([reqs[1] EXCEPT !.findCalls = @ + 1,
                                     !.findArg = reqs[1].payload.userId.s,
                                     !.lookup = user], user)
                  ELSE reqs[1],
                  IF reqs[2].pc = "lookup"
                  THEN OptionalFound([reqs[2] EXCEPT !.findCalls = @ + 1,
                                         !.findArg = reqs[2].payload.userId.s,
                                         !.lookup = user], user)
                  ELSE reqs[2]>>
    /\ UNCHANGED <<headerVars, startupVars, storeVars,
                 clockVars, codecVars, hasherVars, config, users, client>>

\* both calls of execute have returned
TwinClose ==
    /\ reqs[1].pc \in {"handler", "done"}
    /\ reqs[2].pc \in {"handler", "done"}
    /\ reqs' = <<NoRequest, NoRequest>>
    /\ UNCHANGED <<headerVars, startupVars, storeVars,
                 clockVars, codecVars, hasherVars, config, users, client>>

TwinNext == TwinArrive \/ TwinStart \/ TwinVerify \/ TwinLookup \/ TwinClose

SpecTwin == TwinInit /\ [][TwinNext]_vars

(***************************************************************************)
(* The repository fails: the promise of findById is rejected (the database *)
(* is unreachable, the id is no ObjectId) instead of resolving to a user   *)
(* or null.                                                                *)
(***************************************************************************)
\* execute has no try around its awaits: the rejection of findById becomes
\* the rejection of the promise of execute, which returns without a call of
\* next
LookupRejected(rq) ==
    [rq EXCEPT !.pc = "failed", !.findCalls = @ + 1,
               !.findArg = rq.payload.userId.s]

TwinLookupFails ==
    /\ reqs[1].pc = "lookup"
    /\ reqs[2].pc = "lookup"
    /\ reqs' = <<LookupRejected(reqs[1]), LookupRejected(reqs[2])>>
    /\ UNCHANGED <<headerVars, startupVars, storeVars,
                 clockVars, codecVars, hasherVars, config, users, client>>

FaultyNext == TwinNext \/ TwinLookupFails

SpecFaulty == TwinInit /\ [][FaultyNext]_vars

(***************************************************************************)
(* Login as a request of its own: POST /auth/login has no gate; its        *)
(* handler answers with a token or throws 401.                             *)
(***************************************************************************)
\* AuthController.login signs a token for the user of the email without
\* looking at the password
LoginHandler_noPasswordCheck(rq) ==
    LET user == findByEmail(rq.body.email)
    IN  IF user = NoUser \/ user.password = <<>>
        THEN [rq EXCEPT !.pc = "done", !.lookup = user, !.status = 401,
                        !.error = "Invalid login or password"]
        ELSE [rq EXCEPT !.pc = "done", !.lookup = user, !.status = 200,
                        !.signCalls = @ + 1,
                        !.token = signToken(user.id, user.email, LoginSecret,
                                            DefaultTtl, nowMs)]

\* AuthController.login on the body of the request: the response status,
\* the token of the response, and the call of signToken
LoginHandler(rq) ==
    LET user == findByEmail(rq.body.email)
    IN  IF user = NoUser \/ user.password = <<>>
        THEN [rq EXCEPT !.pc = "done", !.lookup = user, !.status = 401,
                        !.error = "Invalid login or password"]
        ELSE IF ~verifyPassword(rq.body.password, user.password, getSalt)
        THEN [rq EXCEPT !.pc = "done", !.lookup = user, !.status = 401,
                        !.error = "Invalid login or password"]
        ELSE [rq EXCEPT !.pc = "done", !.lookup = user, !.status = 200,
                        !.signCalls = @ + 1,
                        !.token = signToken(user.id, user.email, LoginSecret,
                                            DefaultTtl, nowMs)]

\* a user record without a password hash, as a record written outside
\* AuthController.create may be
StoreWithoutPassword ==
    /\ \E i \in 1..NumUsers :
        /\ findByEmail(EmailStr(i)) = NoUser
        /\ users' = Append(users,
                [id |-> UserIdStr(Len(users) + 1), email |-> EmailStr(i),
                 password |-> <<>>])
    /\ UNCHANGED <<headerVars, startupVars, storeVars,
                 clockVars, codecVars, hasherVars, config, client, reqs>>

\* POST /auth/login arrives with any email and any password, the empty
\* password included
LoginArrive(r) ==
    /\ reqs[r].pc = "idle"
    /\ \E i \in 1..NumUsers, password \in {PasswordStr(1), PasswordStr(2), <<>>} :
        reqs' = [reqs EXCEPT ![r] =
                    [NoRequest EXCEPT !.pc = "handler",
                                      !.route = "POST /auth/login",
                                      !.body = [email |-> EmailStr(i),
                                                password |-> password]]]
    /\ UNCHANGED <<headerVars, startupVars, storeVars,
                 clockVars, codecVars, hasherVars, config, users, client>>

LoginHandle(r) ==
    /\ reqs[r].pc = "handler"
    /\ reqs[r].route = "POST /auth/login"
    /\ reqs' = [reqs EXCEPT ![r] = LoginHandler(@)]
    /\ UNCHANGED <<headerVars, startupVars, storeVars,
                 clockVars, codecVars, hasherVars, config, users, client>>

LoginNext ==
    \/ ServerTick
    \/ Register
    \/ StoreWithoutPassword
    \/ \E r \in DOMAIN reqs : LoginArrive(r)
    \/ \E r \in DOMAIN reqs : LoginHandle(r)
    \/ \E r \in DOMAIN reqs : Close(r)

SpecLogin == ServerInit /\ [][LoginNext]_vars

(***************************************************************************)
(* Offers and favorites: the favorite repository, the favorite service,    *)
(* DocumentExistsMiddleware and the handlers of PUT and DELETE             *)
(* /favorites/:offerId, GET /favorites, PATCH and DELETE /offers/:offerId. *)
(* Every await of a handler is a step of its own, so that the requests of  *)
(* two connections interleave at the collection calls.                     *)
(***************************************************************************)
\* model.create({user, offer}) on a collection whose (user, offer) index is
\* unique: the second row of a pair is refused with error code 11000
ModelCreate(rows, user, offer) ==
    IF rows[<<user, offer>>] > 0
    THEN [rows |-> rows, code |-> 11000]
    ELSE [rows |-> [rows EXCEPT ![<<user, offer>>] = 1], code |-> 0]

isDuplicateKeyError(code) == code = 11000

\* FavoriteRepository.add without a catch: every error of create is raised
addPlain(rows, user, offer) ==
    LET made == ModelCreate(rows, user, offer)
    IN  [rows |-> made.rows, raised |-> made.code # 0]

\* FavoriteRepository.add with the catch: a duplicate-key error is swallowed
addGuarded(rows, user, offer) ==
    LET made == ModelCreate(rows, user, offer)
    IN  [rows |-> made.rows,
         raised |-> made.code # 0 /\ ~isDuplicateKeyError(made.code)]

\* FavoriteService.add, over the repository that was built
add(rows, user, offer) ==
    IF build.repository = "plain"
    THEN addPlain(rows, user, offer)
    ELSE addGuarded(rows, user, offer)

\* FavoriteRepository.remove: deleteOne removes one row of the pair, if any
remove(rows, user, offer) ==
    [rows EXCEPT ![<<user, offer>>] = IF @ > 0 THEN @ - 1 ELSE 0]

\* FavoriteRepository.removeByOffer: deleteMany removes every row of the offer
removeByOffer(rows, offer) ==
    [p \in DOMAIN rows |-> IF p[2] = offer THEN 0 ELSE rows[p]]

\* n copies of x
RECURSIVE Copies(_, _)
Copies(x, n) == IF n = 0 THEN <<>> ELSE <<x>> \o Copies(x, n - 1)

\* find({user}).select('offer'): one entry per row of the user, for the
\* offers from `offer` on
RECURSIVE findRows(_, _, _)
findRows(rows, user, offer) ==
    IF offer > MaxOffers
    THEN <<>>
    ELSE Copies(offer, rows[<<user, offer>>]) \o findRows(rows, user, offer + 1)

\* distinct('offer', {user}): one entry per offer that has a row of the user
RECURSIVE distinct(_, _, _)
distinct(rows, user, offer) ==
    IF offer > MaxOffers
    THEN <<>>
    ELSE (IF rows[<<user, offer>>] > 0 THEN <<offer>> ELSE <<>>)
             \o distinct(rows, user, offer + 1)

\* FavoriteRepository.findOfferIdsByUser of the repository that was built
findOfferIdsByUser(rows, user) ==
    IF build.repository = "plain"
    THEN findRows(rows, user, 1)
    ELSE distinct(rows, user, 1)

\* OfferRepository.listByIds: the documents whose _id is one of ids, each
\* document once
RECURSIVE listByIds(_, _, _)
listByIds(docs, ids, offer) ==
    IF offer > MaxOffers
    THEN <<>>
    ELSE (IF docs[offer].state = "present" /\ \E i \in 1..Len(ids) : ids[i] = offer
          THEN <<offer>>
          ELSE <<>>) \o listByIds(docs, ids, offer + 1)

\* FavoriteService.list
list(rows, docs, user) ==
    LET ids == findOfferIdsByUser(rows, user)
    IN  IF Len(ids) = 0 THEN <<>> ELSE listByIds(docs, ids, 1)

\* OfferService.getById: the author of the document, 0 when there is none
getById(docs, offer) ==
    IF docs[offer].state = "present" THEN docs[offer].author ELSE 0

\* OfferService.update: the document with the new title, if it exists
update(docs, offer, title) ==
    IF docs[offer].state = "present"
    THEN [updated |-> TRUE, docs |-> [docs EXCEPT ![offer].title = title]]
    ELSE [updated |-> FALSE, docs |-> docs]

\* OfferService.remove: the document is gone; its id is never used again
removeOffer(docs, offer) ==
    IF docs[offer].state = "present"
    THEN [docs EXCEPT ![offer] = [NoOffer EXCEPT !.state = "removed"]]
    ELSE docs

\* the author test of update and remove, on the ids as strings
IsAuthor_anyUser(author, user) == TRUE

IsAuthor(author, user) == UserIdStr(author) = UserIdStr(user)

\* the routes whose chain holds DocumentExistsMiddleware: the favorite routes
\* and the offer routes of the controller with res.locals.offer; the other
\* controller reads the offer in its handlers
UsesMiddleware(op) ==
    op.kind \in {"putFavorite", "deleteFavorite"} \/ build.controller = "locals"

\* a request ends with the status of the HttpError that was thrown
Fail(op, status) == [op EXCEPT !.pc = "done", !.status = status]

\* DocumentExistsMiddleware.execute: 404 when getById finds nothing; the
\* offer routes keep the document as res.locals.offer
DocumentExists(op, docs) ==
    LET doc == getById(docs, op.offerId)
    IN  IF doc = 0
        THEN Fail(op, 404)
        ELSE [op EXCEPT !.pc = "handler",
                        !.author = IF op.kind \in {"patchOffer", "deleteOffer"}
                                   THEN doc
                                   ELSE 0]

\* update and delete of the controller that reads the offer itself, up to
\* their first write: 401, then getById with 404, then 403
ReadOffer(op, docs) ==
    LET doc == getById(docs, op.offerId)
    IN  IF op.user = 0
        THEN Fail(op, 401)
        ELSE IF doc = 0
        THEN Fail(op, 404)
        ELSE IF ~IsAuthor(doc, op.user)
        THEN Fail([op EXCEPT !.author = doc], 403)
        ELSE [op EXCEPT !.pc = "handler", !.author = doc]

\* the step of a request that reads the offer named by :offerId
Lookup(op, docs) ==
    IF UsesMiddleware(op) THEN DocumentExists(op, docs) ELSE ReadOffer(op, docs)

\* the state a step leaves: the request, the offers and the favorite rows
Left(op, docs, rows) == [op |-> op, docs |-> docs, rows |-> rows]

Called(op, name) == [op EXCEPT !.calls = Append(@, name)]

\* FavoriteController.create
create(op, docs, rows) ==
    IF op.user = 0
    THEN Left(Fail(op, 401), docs, rows)
    ELSE LET added == add(rows, op.user, op.offerId)
         IN  Left([Called(op, "add") EXCEPT
                      !.pc = "done",
                      !.raised = added.raised,
                      !.status = IF added.raised THEN 500 ELSE 204],
                  docs, added.rows)

\* FavoriteController.remove
removeFavorite(op, docs, rows) ==
    IF op.user = 0
    THEN Left(Fail(op, 401), docs, rows)
    ELSE Left([Called(op, "remove") EXCEPT !.pc = "done", !.status = 204],
              docs, remove(rows, op.user, op.offerId))

\* FavoriteController.index
index(op, docs, rows) ==
    IF op.user = 0
    THEN Left(Fail(op, 401), docs, rows)
    ELSE Left([op EXCEPT !.pc = "done", !.status = 200,
                         !.ids = findOfferIdsByUser(rows, op.user),
                         !.listed = list(rows, docs, op.user)],
              docs, rows)

\* the checks of update and remove of the controller with res.locals.offer;
\* the other controller made them before
Refusal(op) ==
    IF build.controller # "locals" THEN 0
    ELSE IF op.user = 0 THEN 401
    ELSE IF ~IsAuthor(op.author, op.user) THEN 403
    ELSE 0

\* OfferController.update: the write, and 500 or 404 when the offer is gone
updateOffer(op, docs, rows) ==
    IF Refusal(op) # 0
    THEN Left(Fail(op, Refusal(op)), docs, rows)
    ELSE LET done == update(docs, op.offerId, op.title)
         IN  Left([Called(op, "update") EXCEPT
                      !.pc = "done",
                      !.status = IF done.updated THEN 200
                                 ELSE IF build.controller = "locals" THEN 500
                                 ELSE 404],
                  done.docs, rows)

\* OfferController.remove and delete, up to the second await: one controller
\* removes the offer first, the other the favorites of the offer
removeFirst(op, docs, rows) ==
    IF Refusal(op) # 0
    THEN Left(Fail(op, Refusal(op)), docs, rows)
    ELSE IF build.controller = "locals"
    THEN Left([Called(op, "offers.remove") EXCEPT !.pc = "second"],
              removeOffer(docs, op.offerId), rows)
    ELSE Left([Called(op, "removeByOffer") EXCEPT !.pc = "second"],
              docs, removeByOffer(rows, op.offerId))

\* the second write of remove and delete, and the 204 answer; `deleted`
\* records that a DELETE of the offer has completed
removeSecond(op, docs, rows) ==
    LET answered == [op EXCEPT !.pc = "done", !.status = 204]
    IN  IF build.controller = "locals"
        THEN Left(Called(answered, "removeByOffer"),
                  [docs EXCEPT ![op.offerId].deleted = TRUE],
                  removeByOffer(rows, op.offerId))
        ELSE Left(Called(answered, "offers.remove"),
                  [removeOffer(docs, op.offerId) EXCEPT ![op.offerId].deleted = TRUE],
                  rows)

\* the handler of a request, up to its next await
Handler(op, docs, rows) ==
    CASE op.kind = "putFavorite" -> create(op, docs, rows)
      [] op.kind = "deleteFavorite" -> removeFavorite(op, docs, rows)
      [] op.kind = "listFavorites" -> index(op, docs, rows)
      [] op.kind = "patchOffer" -> updateOffer(op, docs, rows)
      [] op.kind = "deleteOffer" -> removeFirst(op, docs, rows)

StoreKinds ==
    {"putFavorite", "deleteFavorite", "listFavorites", "patchOffer", "deleteOffer"}

StoreInit ==
    /\ ClockInit /\ CodecIdle /\ HasherIdle /\ HeaderIdle /\ StartupIdle /\ ServerIdle
    /\ build \in [controller : {"locals", "reads"}, repository : {"plain", "guarded"}]
    /\ offers = [o \in OfferIds |-> NoOffer]
    /\ favorites = NoRows
    /\ ops = <<NoOp, NoOp>>

StoreFrame ==
    UNCHANGED <<headerVars, startupVars, clockVars, codecVars, hasherVars,
                serverVars, build>>

\* POST /offers by a user: a new document under the next id
StoreCreateOffer(user) ==
    /\ \E o \in OfferIds :
        /\ offers[o].state = "absent"
        /\ \A before \in 1..(o - 1) : offers[before].state # "absent"
        /\ offers' = [offers EXCEPT ![o] = [NoOffer EXCEPT !.state = "present",
                                                           !.author = user]]
    /\ UNCHANGED <<favorites, ops>>
    /\ StoreFrame

\* a request arrives, behind the gate (user > 0) or without req.user
StoreArrive(r) ==
    /\ ops[r].pc = "idle"
    /\ \E kind \in StoreKinds, user \in 0..NumUsers, o \in OfferIds, title \in {0, 1} :
        /\ kind # "patchOffer" => title = 0
        /\ kind = "listFavorites" => o = 1
        /\ ops' = [ops EXCEPT ![r] =
                      [NoOp EXCEPT !.pc = IF kind = "listFavorites"
                                          THEN "handler"
                                          ELSE "lookup",
                                   !.kind = kind, !.user = user,
                                   !.offerId = o, !.title = title]]
    /\ UNCHANGED <<offers, favorites>>
    /\ StoreFrame

StoreLookup(r) ==
    /\ ops[r].pc = "lookup"
    /\ ops' = [ops EXCEPT ![r] = Lookup(ops[r], offers)]
    /\ UNCHANGED <<offers, favorites>>
    /\ StoreFrame

StoreHandle(r) ==
    /\ ops[r].pc = "handler"
    /\ LET left == Handler(ops[r], offers, favorites)
       IN  /\ ops' = [ops EXCEPT ![r] = left.op]
           /\ offers' = left.docs
           /\ favorites' = left.rows
    /\ StoreFrame

StoreSecond(r) ==
    /\ ops[r].pc = "second"
    /\ LET left == removeSecond(ops[r], offers, favorites)
       IN  /\ ops' = [ops EXCEPT ![r] = left.op]
           /\ offers' = left.docs
           /\ favorites' = left.rows
    /\ StoreFrame

\* the answer is sent and the connection serves the next request
StoreClose(r) ==
    /\ ops[r].pc = "done"
    /\ ops' = [ops EXCEPT ![r] = NoOp]
    /\ UNCHANGED <<offers, favorites>>
    /\ StoreFrame

StoreNext ==
    \/ \E user \in UserIndexes : StoreCreateOffer(user)
    \/ \E r \in 1..2 :
        \/ StoreArrive(r)
        \/ StoreLookup(r)
        \/ StoreHandle(r)
        \/ StoreSecond(r)
        \/ StoreClose(r)

SpecStore == StoreInit /\ [][StoreNext]_vars

(***************************************************************************)
(* getBearerToken exercised as a pure function over Authorization headers  *)
(* assembled from a scheme, a separator, a token and a tail.               *)
(***************************************************************************)
Schemes ==
    {<<>>,
     <<66, 101, 97, 114, 101, 114>>,          \* "Bearer"
     <<98, 101, 97, 114, 101, 114>>,          \* "bearer"
     <<66, 69, 65, 82, 69, 82>>,              \* "BEARER"
     <<84, 111, 107, 101, 110>>,              \* "Token"
     <<66, 101, 97, 114, 101, 114, 58>>}      \* "Bearer:"

Separators == {<<>>, <<32>>, <<32, 32>>, <<9>>}

HeaderTokens == {<<>>, <<97, 98, 99>>, <<97, 46, 98>>}      \* "", "abc", "a.b"

Tails == {<<>>, <<32>>, <<32, 100, 101, 102>>}              \* "", " ", " def"

HeaderChoices ==
    {scheme \o sep \o token \o tail :
        scheme \in Schemes, sep \in Separators, token \in HeaderTokens,
        tail \in Tails}

HeaderInit ==
    ClockInit /\ CodecIdle /\ HasherIdle /\ HeaderIdle /\ StartupIdle /\ ServerIdle
    /\ StoreIdle

\* one call of getBearerToken; the header '' stands for a request without
\* Authorization header
HeaderExtract ==
    /\ \E header \in HeaderChoices :
        extracted' = [has |-> TRUE, header |-> header,
                      token |-> getBearerToken(header)]
    /\ UNCHANGED <<clockVars, codecVars, hasherVars, startupVars, storeVars,
                 serverVars>>

HeaderNext == HeaderExtract

SpecHeader == HeaderInit /\ [][HeaderNext]_vars

(***************************************************************************)
(* Properties of the token codec.                                          *)
(***************************************************************************)
\* the positive result verifyToken owes the holder of the issued token
IssuedIdentity ==
    [ok |-> TRUE, userId |-> JsStr(issued.userId), email |-> JsStr(issued.email)]

\* the issued token, unaltered, verified under the issuing secret
SameSecretVerdict ==
    verdict.has /\ tampered = "none" /\ verdict.secret = issued.secret

\* C1 as stated: for every userId, email, secret and ttlSeconds > 0, the
\* token verified under the same secret at the time of issuance yields
\* exactly the userId and email that were signed.
C1_RoundTripAnyStrings ==
    (SameSecretVerdict /\ issued.ttl > 0 /\ verdict.atMs = issued.atMs)
        => verdict.res = IssuedIdentity

\* C1 amended: the round trip holds for every non-empty userId and non-empty
\* email (every secret, every integer ttlSeconds > 0); an empty userId or
\* email is signed but never verified.
C1_RoundTripNonEmpty ==
    (/\ SameSecretVerdict
     /\ issued.ttl > 0
     /\ verdict.atMs = issued.atMs
     /\ issued.userId # <<>>
     /\ issued.email # <<>>)
        => verdict.res = IssuedIdentity

C1_Witness ==
    /\ SameSecretVerdict
    /\ issued.ttl > 0
    /\ verdict.atMs = issued.atMs
    /\ issued.userId # <<>>
    /\ issued.email # <<>>
    /\ verdict.res.ok

\* C2: a token that differs from a signed token in one bit of its payload
\* segment or of its signature segment is refused under the signing secret.
C2_TamperedTokenRefused ==
    (verdict.has /\ tampered # "none" /\ verdict.secret = issued.secret)
        => verdict.res = Null

\* the altered signature still decodes to the bytes of the genuine one
C2_Witness ==
    /\ verdict.has
    /\ tampered = "signature"
    /\ verdict.secret = issued.secret
    /\ Len(Split(presented, 46)) = 2
    /\ B64Decode(Split(presented, 46)[2]) = B64Decode(Split(issued.token, 46)[2])
    /\ verdict.res = Null

\* C3: a token signed under one secret is refused under any other secret.
C3_WrongSecretRefused ==
    (verdict.has /\ tampered = "none" /\ verdict.secret # issued.secret)
        => verdict.res = Null

\* a token that the issuing secret would accept, verified under another one
C3_Witness ==
    /\ verdict.has
    /\ verdict.secret # issued.secret
    /\ verdict.res = Null
    /\ verifyToken(presented, issued.secret, verdict.atMs).ok

\* C4: a token signed with ttlSeconds = -1, and every signed token whose exp
\* is earlier than the Unix time of the verification, is refused at that
\* time; the clock only advances, so it is refused at every later time too.
C4_ExpiredRefused ==
    (/\ verdict.has
     /\ tampered = "none"
     /\ (issued.ttl = -1 \/ issued.exp < UnixTime(verdict.atMs)))
        => verdict.res = Null

\* the already expired token, verified under its own secret later on
C4_Witness ==
    /\ SameSecretVerdict
    /\ issued.ttl = -1
    /\ issued.userId # <<>>
    /\ issued.email # <<>>
    /\ verdict.atMs > issued.atMs
    /\ verdict.res = Null

(***************************************************************************)
(* Properties of the two token profiles.                                   *)
(***************************************************************************)
\* C17 as stated: in both profiles the expiry test is exp >= now with no
\* leeway: a token signed for a non-empty identity and verified under its
\* own secret yields that identity exactly when its exp is not before the
\* current Unix time, the second exp = now included.
C17_ExpiryBoundaryInclusive ==
    (/\ verdict.has
     /\ tampered = "none"
     /\ verdict.secret = issued.secret
     /\ issued.userId # <<>>
     /\ issued.email # <<>>)
        => /\ issued.exp >= UnixTime(verdict.atMs) => verdict.res = IssuedIdentity
           /\ issued.exp < UnixTime(verdict.atMs) => verdict.res = Null

\* the members of the payload signed by hand have the types the codec
\* writes: strings for the subject and the email, a whole number for exp
WellTyped(c) ==
    /\ c.userId.t = "string"
    /\ c.email.t = "string"
    /\ c.exp.t = "number"
    /\ ~c.exp.frac

\* C19 as stated: verifyToken returns null for every correctly signed token
\* whose payload lacks the subject, the email or exp, or carries one of them
\* with the wrong type.
C19_WrongTypedPayloadRefused ==
    (/\ crafted.has
     /\ verdict.has
     /\ verdict.secret = crafted.secret
     /\ ~WellTyped(crafted))
        => verdict.res = Null

\* position of the first occurrence of operation op in a run, 0 when the
\* run does not perform it
FirstStep(steps, op) ==
    IF \E i \in 1..Len(steps) : steps[i] = op
    THEN Least({i \in 1..Len(steps) : steps[i] = op})
    ELSE 0

\* C20: in every execution of verifyToken that decodes or parses the payload
\* segment, the HMAC over that segment has been recomputed with the secret
\* and has matched the supplied signature before; a token whose signature
\* has one bit altered, or was made under another secret, is refused without
\* its payload being decoded or parsed.
C20_SignatureBeforePayload ==
    verdict.has
        => /\ \A op \in {"decode", "parse"} :
                FirstStep(verdict.steps, op) # 0
                    => /\ FirstStep(verdict.steps, "hmac") # 0
                       /\ FirstStep(verdict.steps, "hmac")
                            < FirstStep(verdict.steps, "match")
                       /\ FirstStep(verdict.steps, "match")
                            < FirstStep(verdict.steps, op)
           /\ \/ (tampered = "signature" /\ verdict.secret = issued.secret)
              \/ (tampered = "none" /\ verdict.secret # issued.secret)
                => /\ verdict.res = Null
                   /\ FirstStep(verdict.steps, "decode") = 0
                   /\ FirstStep(verdict.steps, "parse") = 0

\* a token with one bit of its signature altered, refused after the
\* comparison, under the secret that signed it
C20_Witness ==
    /\ verdict.has
    /\ tampered = "signature"
    /\ verdict.secret = issued.secret
    /\ verdict.steps = <<"split", "hmac", "compare">>
    /\ verdict.res = Null

(***************************************************************************)
(* Properties of the credential hasher.                                    *)
(***************************************************************************)
\* C5: a password verifies against its own hash under the same pepper.
C5_PasswordRoundTrip ==
    (/\ pwCheck.has
     /\ pwCheck.password = pwStored.password
     /\ pwCheck.salt = pwStored.salt)
        => pwCheck.res = TRUE

C5_Witness ==
    /\ pwCheck.has
    /\ pwCheck.password = pwStored.password
    /\ pwCheck.salt = pwStored.salt
    /\ pwCheck.password # <<>>
    /\ pwCheck.res = TRUE

\* C6: two different passwords hashed under the same pepper give different
\* hashes, and the wrong one does not verify against the stored hash.
C6_WrongPasswordRejected ==
    (/\ pwCheck.has
     /\ pwCheck.password # pwStored.password
     /\ pwCheck.salt = pwStored.salt)
        => /\ hashPassword(pwCheck.password, pwCheck.salt) # pwStored.hash
           /\ pwCheck.res = FALSE

C6_Witness ==
    /\ pwCheck.has
    /\ pwCheck.password # pwStored.password
    /\ pwCheck.salt = pwStored.salt
    /\ pwCheck.res = FALSE

(***************************************************************************)
(* Properties of the authentication gates.                                 *)
(***************************************************************************)
\* the request on connection r carries the token the client holds
PresentsClientToken(r) ==
    client.from # "none" /\ reqs[r].header = Bearer(client.token)

\* the gate in front of the request's route was built with the secret the
\* client's token was signed with
SameSecretGate(r) == client.secret = GateSecret(Controller(reqs[r].route))

\* C7: a request without Authorization header to a route behind the required
\* gate is answered 401: the gate passes the error to next, attaches no
\* identity, and calls neither verifyToken nor findById.
C7_RequiredNoHeaderRejected ==
    \A r \in DOMAIN reqs :
        (/\ reqs[r].pc \notin {"idle", "gate"}
         /\ Policy(reqs[r].route) = "required"
         /\ reqs[r].header = <<>>)
            => /\ reqs[r].pc = "done"
               /\ reqs[r].nextCalls = 1
               /\ reqs[r].error = "Unauthorized"
               /\ reqs[r].status = 401
               /\ reqs[r].user = NoUser
               /\ reqs[r].verifyCalls = 0
               /\ reqs[r].findCalls = 0

C7_Witness ==
    \E r \in DOMAIN reqs :
        /\ reqs[r].pc = "done"
        /\ reqs[r].route = "GET /auth/status"
        /\ reqs[r].header = <<>>
        /\ reqs[r].status = 401
        /\ Len(users) > 0

\* C8: behind the optional gate, a request whose token fails verification
\* (an expired one in particular) goes on to its handler: next is called
\* without error, no identity is attached, the request is not rejected.
C8_OptionalInvalidTokenProceeds ==
    \A r \in DOMAIN reqs :
        (/\ Policy(reqs[r].route) = "optional"
         /\ reqs[r].verifyCalls = 1
         /\ ~verifyToken(getBearerToken(reqs[r].header),
                         GateSecret(Controller(reqs[r].route)),
                         reqs[r].verifiedAtMs).ok)
            => /\ reqs[r].pc \in {"handler", "done"}
               /\ reqs[r].nextCalls = 1
               /\ reqs[r].error = ""
               /\ reqs[r].user = NoUser
               /\ reqs[r].findCalls = 0
               /\ (reqs[r].pc = "done" => reqs[r].status = SuccessStatus(reqs[r].route))

\* a correctly signed token, expired when the optional gate verifies it
C8_Witness ==
    \E r \in DOMAIN reqs :
        /\ Policy(reqs[r].route) = "optional"
        /\ PresentsClientToken(r)
        /\ SameSecretGate(r)
        /\ findById(client.userId) # NoUser
        /\ reqs[r].verifyCalls = 1
        /\ client.exp < UnixTime(reqs[r].verifiedAtMs)
        /\ reqs[r].pc = "done"
        /\ reqs[r].status = 200
        /\ reqs[r].user = NoUser

\* C9: a token signed for subject u with the secret of the gate and verified
\* by the required gate at the time of issuance verifies; when findById(u)
\* then returns a user, the gate attaches exactly that user and calls next
\* without error, and the handler answers with its success status.
C9_EndToEndSuccess ==
    \A r \in DOMAIN reqs :
        (/\ Policy(reqs[r].route) = "required"
         /\ PresentsClientToken(r)
         /\ SameSecretGate(r)
         /\ reqs[r].verifyCalls = 1
         /\ reqs[r].verifiedAtMs = client.atMs)
            => /\ reqs[r].payload.ok
               /\ reqs[r].payload.userId = JsStr(client.userId)
               /\ reqs[r].error # "Invalid token"
               /\ (reqs[r].findCalls = 1 /\ reqs[r].lookup # NoUser)
                    => /\ reqs[r].lookup.id = client.userId
                       /\ reqs[r].user = reqs[r].lookup
                       /\ reqs[r].nextCalls = 1
                       /\ reqs[r].error = ""
                       /\ reqs[r].pc \in {"handler", "done"}
                       /\ (reqs[r].pc = "done"
                            => reqs[r].status = SuccessStatus(reqs[r].route))

\* the one-hour token, presented at once to GET /auth/status
C9_Witness ==
    \E r \in DOMAIN reqs :
        /\ reqs[r].route = "GET /auth/status"
        /\ PresentsClientToken(r)
        /\ client.from = "elsewhere"
        /\ client.exp = UnixTime(client.atMs) + 3600
        /\ reqs[r].verifiedAtMs = client.atMs
        /\ reqs[r].pc = "done"
        /\ reqs[r].status = 200
        /\ reqs[r].user.id = client.userId

\* C10 as stated: with SALT and JWT_SECRET different, an unexpired token
\* returned by POST /auth/login is accepted by the gate of every controller.
C10_LoginTokenAcceptedByEveryGate ==
    \A r \in DOMAIN reqs :
        (/\ config.salt # config.jwtSecret
         /\ PresentsClientToken(r)
         /\ client.from = "login"
         /\ reqs[r].verifyCalls = 1
         /\ client.exp >= UnixTime(reqs[r].verifiedAtMs))
            => /\ reqs[r].payload.ok
               /\ reqs[r].payload.userId = JsStr(client.userId)
               /\ reqs[r].error # "Invalid token"

\* C11: a request whose Authorization header is "Token abc" is treated as
\* carrying no token: the required gate rejects it with 401, the optional
\* gate calls next without error and without identity, and neither gate
\* calls verifyToken or findById.
C11_WrongSchemeIsNoToken ==
    \A r \in DOMAIN reqs :
        (reqs[r].pc \notin {"idle", "gate"} /\ reqs[r].header = TokenAbc)
            => /\ reqs[r].verifyCalls = 0
               /\ reqs[r].findCalls = 0
               /\ reqs[r].user = NoUser
               /\ reqs[r].nextCalls = 1
               /\ IF Policy(reqs[r].route) = "required"
                  THEN /\ reqs[r].pc = "done"
                       /\ reqs[r].error = "Unauthorized"
                       /\ reqs[r].status = 401
                  ELSE /\ reqs[r].pc \in {"handler", "done"}
                       /\ reqs[r].error = ""
                       /\ (reqs[r].pc = "done" => reqs[r].status = 200)

\* the wrong scheme at the optional gate, served as an anonymous request
C11_Witness ==
    \E r \in DOMAIN reqs :
        /\ reqs[r].header = TokenAbc
        /\ Policy(reqs[r].route) = "optional"
        /\ reqs[r].pc = "done"
        /\ reqs[r].status = 200
        /\ reqs[r].verifyCalls = 0
        /\ client.from = "login"

\* the response of the required gate to a request without Authorization
\* header
MissingTokenResponse ==
    Response(AuthStart([NoRequest EXCEPT !.pc = "gate",
                                         !.route = "GET /auth/status"]))

\* C13 as stated: every rejection by the required gate shows the client the
\* same status and the same body as the rejection of a request without
\* token, whichever stage failed.
C13_RejectionsIndistinguishable ==
    \A r \in DOMAIN reqs :
        (/\ Policy(reqs[r].route) = "required"
         /\ reqs[r].pc = "done"
         /\ reqs[r].error # "")
            => Response(reqs[r]) = MissingTokenResponse

(***************************************************************************)
(* Properties of header extraction and of startup.                         *)
(***************************************************************************)
\* the header is "Bearer", one space, and a non-empty token without a space
ExactBearer(header) ==
    /\ HasPrefix(header, Bearer(<<>>))
    /\ Len(header) > Len(Bearer(<<>>))
    /\ \A i \in (Len(Bearer(<<>>)) + 1)..Len(header) : header[i] # 32

\* C12 as stated: getBearerToken yields a token exactly for the headers made
\* of the case-sensitive scheme "Bearer", one space and a non-empty token
\* with nothing after it, and the token it yields is that token; every other
\* header, "Bearer abc def" included, yields none.
C12_ExtractionIsExact ==
    extracted.has
        => /\ (extracted.token # <<>>) <=> ExactBearer(extracted.header)
           /\ ExactBearer(extracted.header)
                => extracted.token = Drop(extracted.header, Len(Bearer(<<>>)))

\* the variable is unset, empty or made of white space only
Blank(v) == ~v.set \/ \A i \in 1..Len(v.value) : IsWhiteSpace(v.value[i])

\* C14: constructing ConfigService throws when one of the five required
\* variables is unset, empty or blank; when construction succeeds, getSalt()
\* and getJwtSecret() are non-empty, and so is the secret of every gate and
\* the secret login signs with.
C14_StartupValidatesSecrets ==
    boot.state # "off"
        => /\ (\E key \in REQUIRED_ENVS : Blank(env[key]))
                => boot.state = "failed"
           /\ boot.state = "running"
                => /\ getSalt # <<>>
                   /\ getJwtSecret # <<>>
                   /\ getSalt = env["SALT"].value
                   /\ getJwtSecret = env["JWT_SECRET"].value
                   /\ LoginSecret # <<>>
                   /\ \A route \in Routes : GateSecret(Controller(route)) # <<>>

\* construction refused because SALT alone is blank
C14_Witness ==
    /\ boot.state = "failed"
    /\ env["SALT"] = EnvValue(<<32, 9>>)
    /\ \A key \in REQUIRED_ENVS \ {"SALT"} : ~Blank(env[key])
    /\ IsPort(env["PORT"].value)
    /\ boot.missing = {"SALT"}

(***************************************************************************)
(* Properties of logout.                                                   *)
(***************************************************************************)
\* C16: tokens are not revoked. After the client has logged out, its token
\* still verifies at every gate built with the secret it was signed with,
\* at every time up to its exp; and issuing a token, passing a gate and
\* logging out write no server state.
C16_LogoutRevokesNothing ==
    /\ [](\A r \in DOMAIN reqs :
            (/\ client.loggedOut
             /\ PresentsClientToken(r)
             /\ SameSecretGate(r)
             /\ reqs[r].verifyCalls = 1
             /\ client.exp >= UnixTime(reqs[r].verifiedAtMs))
                => /\ reqs[r].payload.ok
                   /\ reqs[r].payload.userId = JsStr(client.userId)
                   /\ reqs[r].error # "Invalid token")
    /\ [][(client' # client \/ reqs' # reqs) => UNCHANGED <<config, users>>]_vars

\* a request served with the client's identity after the client logged out,
\* verified a day after the login, in the last second of the token
C16_Witness ==
    \E r \in DOMAIN reqs :
        /\ client.loggedOut
        /\ client.from = "login"
        /\ reqs[r].route = "GET /auth/status"
        /\ PresentsClientToken(r)
        /\ reqs[r].verifiedAtMs = client.atMs + 1000 * DefaultTtl
        /\ reqs[r].pc = "done"
        /\ reqs[r].status = 200
        /\ reqs[r].user.id = client.userId

(***************************************************************************)
(* Properties of concurrent requests.                                      *)
(***************************************************************************)
\* what the token of the request's own header verifies to at the gate of its
\* route, at the time the gate verified it
OwnPayload(rq) ==
    verifyToken(getBearerToken(rq.header), GateSecret(Controller(rq.route)),
                rq.verifiedAtMs)

\* the request left its gate with the outcome its own header resolves to
OwnOutcome(rq) ==
    LET required == Policy(rq.route) = "required"
        refused(message) ==
            /\ rq.user = NoUser
            /\ IF required
               THEN rq.pc = "done" /\ rq.error = message /\ rq.status = 401
               ELSE rq.error = ""
    IN  /\ rq.nextCalls = 1
        /\ IF getBearerToken(rq.header) = <<>>
           THEN refused("Unauthorized") /\ rq.verifyCalls = 0 /\ rq.findCalls = 0
           ELSE IF ~OwnPayload(rq).ok
           THEN refused("Invalid token") /\ rq.verifyCalls = 1 /\ rq.findCalls = 0
           ELSE IF rq.lookup = NoUser
           THEN refused("User not found") /\ rq.verifyCalls = 1 /\ rq.findCalls = 1
           ELSE /\ rq.verifyCalls = 1
                /\ rq.findCalls = 1
                /\ rq.lookup = findById(OwnPayload(rq).userId.s)
                /\ rq.user = rq.lookup
                /\ JsStr(rq.user.id) = OwnPayload(rq).userId
                /\ rq.error = ""

\* a step of one request leaves every other request as it is, and a step of
\* a gate or handler writes nothing but its own request
OwnStep ==
    /\ \A r1, r2 \in DOMAIN reqs :
        (r1 # r2 /\ reqs'[r1] # reqs[r1]) => reqs'[r2] = reqs[r2]
    /\ reqs' # reqs => UNCHANGED <<clockVars, config, users, client>>

\* C15: in every interleaving of concurrent requests, each request leaves
\* its gate with the outcome and the identity its own Authorization header
\* resolves to, and no step of one request changes another request or any
\* state shared between requests.
C15_RequestsIsolated ==
    /\ [](\A r \in DOMAIN reqs :
            reqs[r].pc \in {"handler", "done"} => OwnOutcome(reqs[r]))
    /\ [][OwnStep]_vars

\* two requests past their gates at the same time, each with the identity
\* of its own token
C15_Witness ==
    /\ Len(reqs) >= 2
    /\ reqs[1].pc = "handler"
    /\ reqs[2].pc = "handler"
    /\ reqs[1].user.id = UserIdStr(1)
    /\ reqs[2].user.id = UserIdStr(2)
    /\ reqs[1].route = "POST /offers"
    /\ reqs[2].route = "GET /offers"

\* C18: behind the required gate, a token that fails verification, and a
\* token that verifies but names a user findById does not find, both end in
\* a 401 error passed to next with no identity attached; findById is called
\* at most once per request, only after verifyToken returned a payload, and
\* with the userId of that payload.
C18_RequiredLaterStages ==
    \A r \in DOMAIN reqs :
        Policy(reqs[r].route) = "required"
            => /\ reqs[r].verifyCalls <= 1
               /\ reqs[r].findCalls <= 1
               /\ reqs[r].findCalls = 1
                    => /\ reqs[r].verifyCalls = 1
                       /\ reqs[r].payload.ok
                       /\ reqs[r].payload = OwnPayload(reqs[r])
                       /\ JsStr(reqs[r].findArg) = reqs[r].payload.userId
               /\ (reqs[r].verifyCalls = 1 /\ ~OwnPayload(reqs[r]).ok)
                    => /\ reqs[r].pc = "done"
                       /\ reqs[r].nextCalls = 1
                       /\ reqs[r].error = "Invalid token"
                       /\ reqs[r].status = 401
                       /\ reqs[r].user = NoUser
                       /\ reqs[r].findCalls = 0
               /\ (reqs[r].findCalls = 1 /\ reqs[r].lookup = NoUser)
                    => /\ reqs[r].pc = "done"
                       /\ reqs[r].nextCalls = 1
                       /\ reqs[r].error = "User not found"
                       /\ reqs[r].status = 401
                       /\ reqs[r].user = NoUser

\* a verified token whose subject is not in the user collection, refused
\* while another user is registered
C18_Witness ==
    \E r \in DOMAIN reqs :
        /\ Policy(reqs[r].route) = "required"
        /\ PresentsClientToken(r)
        /\ reqs[r].payload.ok
        /\ reqs[r].findCalls = 1
        /\ reqs[r].findArg = client.userId
        /\ reqs[r].lookup = NoUser
        /\ reqs[r].status = 401
        /\ Len(users) > 0

(***************************************************************************)
(* Properties of malformed tokens.                                         *)
(***************************************************************************)
\* the presented text is two non-empty segments with one dot between them
TwoSegments ==
    /\ Cardinality({i \in 1..Len(presented) : presented[i] = 46}) = 1
    /\ presented[1] # 46
    /\ presented[Len(presented)] # 46

\* C21: verifyToken returns null for every token that is not exactly two
\* non-empty segments separated by a single dot (no dot, more than one dot,
\* an empty payload segment, an empty signature segment), under every secret.
C21_MalformedTokenRefused ==
    (verdict.has /\ ~TwoSegments) => verdict.res = Null

\* an empty payload segment followed by the genuine HMAC of the empty text
\* under the verifying secret: the signature matches and the parse fails
C21_Witness ==
    /\ verdict.has
    /\ tampered = "nopayload"
    /\ presented = <<46>> \o B64Encode(HmacDigest(verdict.secret, <<>>))
    /\ verdict.steps
        = <<"split", "hmac", "compare", "match", "decode", "parse", "catch">>
    /\ verdict.res = Null

\* C22: verifyToken and verifyPassword never raise: every call returns, and
\* returns a negative result for a payload that cannot be decoded or is no
\* JSON, for a correctly signed payload that is JSON for null or for
\* something that is no object, and for a stored digest whose decoded length
\* differs from the recomputed one, in which case timingSafeEqual is not
\* called.
C22_NeverRaise ==
    /\ verdict.has
        => /\ ~verdict.raised
           /\ (crafted.has /\ crafted.userId = Undefined) => verdict.res = Null
    /\ pwCheck.has
        => /\ ~pwCheck.raised
           /\ Len(HexDecode(pwStored.hash)) # KeyLen
                => (~pwCheck.res /\ ~pwCheck.compared)

\* the correctly signed payload null, whose TypeError is caught, and a
\* stored digest one digit short, refused without a comparison
C22_Witness ==
    /\ verdict.has
    /\ presented = B64Encode(<<110, 117, 108, 108>>) \o <<46>>
            \o B64Encode(HmacDigest(verdict.secret, B64Encode(<<110, 117, 108, 108>>)))
    /\ verdict.steps = <<"split", "hmac", "compare", "match", "decode", "parse",
                         "fields", "catch">>
    /\ verdict.res = Null
    /\ pwCheck.has
    /\ Len(pwStored.hash) = 2 * KeyLen - 1
    /\ ~pwCheck.res

(***************************************************************************)
(* Properties of the two gate classes side by side.                        *)
(***************************************************************************)
\* the state a gate has reached with a request: still running, or one of
\* the four ends of the gate
GateState(rq) ==
    IF rq.pc \notin {"handler", "done"} THEN "Running"
    ELSE IF rq.verifyCalls = 0 THEN "NoToken"
    ELSE IF rq.findCalls = 0 THEN "TokenInvalid"
    ELSE IF rq.lookup = NoUser THEN "SubjectUnknown"
    ELSE "Authenticated"

\* C23: on the same request and the same results of verifyToken and
\* findById, AuthMiddleware and OptionalAuthMiddleware reach the same state
\* (NoToken, TokenInvalid, SubjectUnknown, Authenticated), make the same
\* calls of verifyToken and findById and attach the same identity in the
\* same cases; they differ only in that the required gate passes a 401 error
\* to next where the optional gate calls next without error.
C23_OneGateTwoBranches ==
    LET required == reqs[1]
        optional == reqs[2]
    IN  /\ GateState(required) = GateState(optional)
        /\ required.pc \in {"idle", "gate", "verify", "lookup"}
            => required.pc = optional.pc
        /\ required.verifyCalls = optional.verifyCalls
        /\ required.findCalls = optional.findCalls
        /\ required.findArg = optional.findArg
        /\ required.payload = optional.payload
        /\ required.user = optional.user
        /\ required.user # NoUser <=> GateState(required) = "Authenticated"
        /\ required.nextCalls = optional.nextCalls
        /\ optional.error = "" /\ optional.status = 0
        /\ GateState(required) \in {"NoToken", "TokenInvalid", "SubjectUnknown"}
            => /\ required.pc = "done" /\ required.status = 401
               /\ optional.pc = "handler"
        /\ GateState(required) = "Authenticated"
            => /\ required.pc = "handler" /\ required.error = ""
               /\ optional.pc = "handler"

\* both gates asked findById for the same subject and attached the user it
\* returned to both
C23_Witness ==
    /\ GateState(reqs[1]) = "Authenticated"
    /\ reqs[1].user = reqs[2].user
    /\ reqs[1].user.id = UserIdStr(2)
    /\ reqs[1].findArg = UserIdStr(1)

\* a step of execute of either gate class for the request of connection r
GateStep(r) ==
    /\ reqs[r].pc \in {"gate", "verify", "lookup"}
    /\ reqs'[r] # reqs[r]

\* what a step of a gate leaves alone: the user collection (no create, no
\* updateAvatar), the configuration, the tokens in circulation, the clock,
\* the method, path and headers of the request; req.user is written only
\* by the step that ends the gate with an identity
GateFrame(r) ==
    /\ UNCHANGED <<users, config, client, clockVars, startupVars>>
    /\ reqs'[r].route = reqs[r].route
    /\ reqs'[r].header = reqs[r].header
    /\ reqs'[r].user # reqs[r].user
        => /\ reqs[r].pc = "lookup"
           /\ reqs'[r].user = reqs'[r].lookup
           /\ GateState(reqs'[r]) = "Authenticated"
    /\ reqs'[r].findCalls + reqs'[r].verifyCalls
            <= reqs[r].findCalls + reqs[r].verifyCalls + 1

\* C24: executing either gate changes nothing except the user field of the
\* request: the user collection is only read, by findById, no token is
\* stored, and in every outcome other than Authenticated the user field is
\* left unset.
C24_GateFrame ==
    /\ [](\A r \in DOMAIN reqs :
            GateState(reqs[r]) # "Authenticated" => reqs[r].user = NoUser)
    /\ [][\A r \in DOMAIN reqs : GateStep(r) => GateFrame(r)]_vars

\* the optional gate has let a request through whose token names a user
\* that does not exist, and the request has no identity
C24_Witness ==
    \E r \in DOMAIN reqs :
        /\ Policy(reqs[r].route) = "optional"
        /\ GateState(reqs[r]) = "SubjectUnknown"
        /\ reqs[r].payload.ok
        /\ reqs[r].user = NoUser
        /\ Len(users) > 0

(***************************************************************************)
(* Properties of login.                                                    *)
(***************************************************************************)
\* the member exp of the payload a token carries
TokenExp(token) ==
    JsonParse(Utf8ToString(B64Decode(PayloadSegment(token)))).fields["exp"]

C26_ExactlyOneContinuation ==
    \A r \in DOMAIN reqs :
        /\ reqs[r].pc \in {"handler", "done", "failed"} => reqs[r].nextCalls = 1
        /\ reqs[r].pc \in {"gate", "verify", "lookup"} => reqs[r].nextCalls = 0

\* the member userId of the payload a token carries
TokenSubject(token) ==
    JsonParse(Utf8ToString(B64Decode(PayloadSegment(token)))).fields["userId"]

\* C27: POST /auth/login answers with a token only if findByEmail returned
\* a user with a stored password hash and the password of the request
\* hashes, under the pepper, to that stored hash; the subject of the token
\* is the id of that user. In every other case it answers 401 and signToken
\* is not called.
C27_LoginAfterPassword ==
    \A r \in DOMAIN reqs :
        (reqs[r].route = "POST /auth/login" /\ reqs[r].pc = "done")
            => IF /\ reqs[r].lookup # NoUser
                  /\ reqs[r].lookup.password # <<>>
                  /\ hashPassword(reqs[r].body.password, getSalt)
                        = reqs[r].lookup.password
               THEN /\ reqs[r].status = 200
                    /\ reqs[r].signCalls = 1
                    /\ reqs[r].lookup.email = reqs[r].body.email
                    /\ TokenSubject(reqs[r].token) = JsStr(reqs[r].lookup.id)
               ELSE /\ reqs[r].status = 401
                    /\ reqs[r].signCalls = 0
                    /\ reqs[r].token = <<>>

\* a wrong password for a registered user: 401 and no token
C27_Witness ==
    \E r \in DOMAIN reqs :
        /\ reqs[r].route = "POST /auth/login"
        /\ reqs[r].pc = "done"
        /\ reqs[r].lookup # NoUser
        /\ reqs[r].lookup.password # <<>>
        /\ reqs[r].body.password = PasswordStr(2)
        /\ reqs[r].status = 401
        /\ reqs[r].token = <<>>

(***************************************************************************)
(* Offers and favorites                                                    *)
(***************************************************************************)
\* the favorite rows that reference an offer
RowsOf(o) == {p \in DOMAIN favorites : p[2] = o /\ favorites[p] > 0}

\* C28: once a DELETE /offers/:offerId by the author of the offer has
\* completed, no favorite row references the offer, whatever a concurrent
\* PUT /favorites/:offerId does and in whichever order the controller removes
\* the offer and its favorites
C28_NoDanglingFavorites ==
    \A o \in OfferIds : offers[o].deleted => RowsOf(o) = {}

\* the requests that change an offer
OfferWrites == {"patchOffer", "deleteOffer"}

\* what holds of one PATCH or DELETE /offers/:offerId request at any time
AuthorOnly(op) ==
    /\ op.calls # <<>> => op.user # 0 /\ op.user = op.author
    /\ op.status \in {401, 403} => op.calls = <<>>
    /\ (op.pc = "done" /\ op.user = 0) => op.status \in {401, 404}
    /\ (op.pc = "done" /\ op.user # 0 /\ op.author # 0 /\ op.user # op.author)
           => op.status = 403

\* a step that changes an existing offer, or removes favorite rows of an
\* offer, is a step of a request of the author of the offer (or, for one
\* row, of a DELETE /favorites/:offerId of the user of the row)
AuthorStep ==
    /\ \A o \in OfferIds :
        (offers[o].state = "present" /\ offers'[o] # offers[o]) =>
            \E r \in 1..Len(ops) :
                /\ ops'[r] # ops[r]
                /\ ops[r].kind \in OfferWrites
                /\ ops[r].offerId = o
                /\ ops[r].user = offers[o].author
    /\ \A p \in DOMAIN favorites :
        favorites'[p] < favorites[p] =>
            \E r \in 1..Len(ops) :
                /\ ops'[r] # ops[r]
                /\ ops[r].offerId = p[2]
                /\ \/ ops[r].kind = "deleteFavorite" /\ ops[r].user = p[1]
                   \/ ops[r].kind = "deleteOffer" /\ ops[r].user = ops[r].author

\* C29: PATCH and DELETE /offers/:offerId change or remove the offer and its
\* favorites only for the author of the offer; any other authenticated user
\* gets 403 and no update, remove or removeByOffer call is made, and a
\* request without identity gets 401 (404 when the middleware finds no
\* offer), again without a write
C29_OnlyAuthorChanges ==
    /\ [](\A r \in 1..Len(ops) : ops[r].kind \in OfferWrites => AuthorOnly(ops[r]))
    /\ [][AuthorStep]_vars

\* a DELETE of another user was refused with 403 while a PATCH of the author
\* was carried out, and a request without identity was refused with 401
C29_Witness ==
    /\ Len(ops) = 2
    /\ \E r, q \in 1..2 :
        /\ ops[r].kind = "deleteOffer" /\ ops[r].status = 403 /\ ops[r].user # 0
        /\ ops[q].kind = "patchOffer" /\ ops[q].status = 200
        /\ ops[q].calls = <<"update">>

NoDuplicates(seq) ==
    \A i, j \in 1..Len(seq) : i # j => seq[i] # seq[j]

\* a step in which a PUT /favorites/:offerId handler adds a pair that is
\* already stored
AddsPresentPair(r) ==
    /\ ops[r].pc = "handler"
    /\ ops[r].kind = "putFavorite"
    /\ ops[r].user # 0
    /\ favorites[<<ops[r].user, ops[r].offerId>>] > 0
    /\ ops'[r] # ops[r]

\* C30: adding a favorite is idempotent: the favorites of a user hold each
\* offer at most once, add of a pair that is already stored completes
\* without error and leaves the stored rows unchanged, and
\* findOfferIdsByUser and FavoriteService.list return each offer id at most
\* once
C30_AddIdempotent ==
    /\ [](/\ \A p \in DOMAIN favorites : favorites[p] <= 1
          /\ \A r \in 1..Len(ops) :
                /\ ops[r].kind = "putFavorite" => ~ops[r].raised
                /\ ops[r].kind = "listFavorites" =>
                       NoDuplicates(ops[r].ids) /\ NoDuplicates(ops[r].listed))
    /\ [][\A r \in 1..Len(ops) :
            AddsPresentPair(r) => favorites' = favorites /\ ~ops'[r].raised]_vars

====
